---- MODULE Spec2Model ----
(***************************************************************************)
(* Key generation and host selection of the BittenCloud back end           *)
(* (internal/services key service, the sql host/user repositories and the  *)
(* key HTTP handlers), as a state machine.                                 *)
(*                                                                         *)
(* Go strings are sequences of one-character strings, so that case         *)
(* folding, percent-escaping, sorting of query keys and URL formatting are *)
(* computed character by character as the standard library does.           *)
(***************************************************************************)
EXTENDS Integers, Sequences, FiniteSets, TLC

(***************************************************************************)
(* Characters and strings                                                  *)
(***************************************************************************)

\* The printable ASCII characters in code order, starting at code 32.
Printable ==
  << " ", "!", "\"", "#", "$", "%", "&", "'", "(", ")", "*", "+",
     ",", "-", ".", "/", "0", "1", "2", "3", "4", "5", "6", "7",
     "8", "9", ":", ";", "<", "=", ">", "?", "@", "A", "B", "C",
     "D", "E", "F", "G", "H", "I", "J", "K", "L", "M", "N", "O",
     "P", "Q", "R", "S", "T", "U", "V", "W", "X", "Y", "Z", "[",
     "\\", "]", "^", "_", "<grave>", "a", "b", "c", "d", "e", "f", "g",
     "h", "i", "j", "k", "l", "m", "n", "o", "p", "q", "r", "s",
     "t", "u", "v", "w", "x", "y", "z", "{", "|", "}", "~" >>

\* ASCII code of a printable character.
CharCode(c) == 31 + (CHOOSE i \in 1..Len(Printable) : Printable[i] = c)

HexDigitsUpper == <<"0", "1", "2", "3", "4", "5", "6", "7", "8", "9", "A", "B", "C", "D", "E", "F">>

HexDigitsLower == <<"0", "1", "2", "3", "4", "5", "6", "7", "8", "9", "a", "b", "c", "d", "e", "f">>

IsAlnum(c) ==
  LET n == CharCode(c)
  IN  \/ (n >= 97 /\ n <= 122)
      \/ (n >= 65 /\ n <= 90)
      \/ (n >= 48 /\ n <= 57)

\* strings.ToLower on ASCII text: upper-case letters are moved to lower case.
ToLowerChar(c) ==
  LET n == CharCode(c)
  IN  IF n >= 65 /\ n <= 90 THEN Printable[(n + 32) - 31] ELSE c

ToLower(s) == [i \in 1..Len(s) |-> ToLowerChar(s[i])]

\* Concatenation of a sequence of strings.
RECURSIVE Concat(_)
Concat(ss) == IF ss = <<>> THEN <<>> ELSE Head(ss) \o Concat(Tail(ss))

\* Byte-wise lexicographic order of two strings (Go's string "<").
RECURSIVE StrLess(_, _)
StrLess(a, b) ==
  IF b = <<>> THEN FALSE
  ELSE IF a = <<>> THEN TRUE
  ELSE IF CharCode(Head(a)) < CharCode(Head(b)) THEN TRUE
  ELSE IF CharCode(Head(a)) > CharCode(Head(b)) THEN FALSE
  ELSE StrLess(Tail(a), Tail(b))

(***************************************************************************)
(* net/url escaping as used by url.Values.Encode and url.PathEscape        *)
(***************************************************************************)

\* url.shouldEscape for the two modes the key service uses.
shouldEscape(c, mode) ==
  IF IsAlnum(c) THEN FALSE
  ELSE IF c \in {"-", "_", ".", "~"} THEN FALSE
  ELSE IF c \in {"$", "&", "+", ",", "/", ":", ";", "=", "?", "@"}
       THEN IF mode = "encodePathSegment"
            THEN c \in {"/", ";", ",", "?"}
            ELSE TRUE
  ELSE TRUE

\* url.escape of one byte: '+' for a space in a query component, "%XX"
\* (upper-case hex) for every other byte that must be escaped.
escapeChar(c, mode) ==
  IF ~shouldEscape(c, mode) THEN <<c>>
  ELSE IF c = " " /\ mode = "encodeQueryComponent" THEN <<"+">>
  ELSE <<"%", HexDigitsUpper[(CharCode(c) \div 16) + 1],
              HexDigitsUpper[(CharCode(c) % 16) + 1]>>

RECURSIVE escape(_, _)
escape(s, mode) ==
  IF s = <<>> THEN <<>>
  ELSE escapeChar(Head(s), mode) \o escape(Tail(s), mode)

\* Keys and values written into the query as they are.
QueryEscape_raw(s) == s

QueryEscape(s) == escape(s, "encodeQueryComponent")

\* The remarks escaped as a query component.
PathEscape_asQuery(s) == escape(s, "encodeQueryComponent")

PathEscape(s) == escape(s, "encodePathSegment")

(***************************************************************************)
(* url.Values: a map from key to value (the encoder only ever calls Set,   *)
(* so every key holds one value).                                          *)
(***************************************************************************)

EmptyValues == [k \in {} |-> <<>>]

ValuesSet(q, k, v) == [x \in (DOMAIN q) \cup {k} |-> IF x = k THEN v ELSE q[x]]

\* The keys of a map in descending byte order.
RECURSIVE SortedKeys_descending(_)
SortedKeys_descending(ks) ==
  IF ks = {} THEN <<>>
  ELSE LET m == CHOOSE k \in ks : \A o \in ks \ {k} : StrLess(o, k)
       IN  <<m>> \o SortedKeys_descending(ks \ {m})

\* The keys of a map in ascending byte order.
RECURSIVE SortedKeys(_)
SortedKeys(ks) ==
  IF ks = {} THEN <<>>
  ELSE LET m == CHOOSE k \in ks : \A o \in ks \ {k} : StrLess(k, o)
       IN  <<m>> \o SortedKeys(ks \ {m})

RECURSIVE JoinPairs(_, _)
JoinPairs(q, keys) ==
  IF keys = <<>> THEN <<>>
  ELSE LET pair == QueryEscape(Head(keys)) \o <<"=">> \o QueryEscape(q[Head(keys)])
       IN  IF Len(keys) = 1 THEN pair
           ELSE pair \o <<"&">> \o JoinPairs(q, Tail(keys))

\* url.Values.Encode: "k1=v1&k2=v2", keys sorted, keys and values escaped.
ValuesEncode(q) == JoinPairs(q, SortedKeys(DOMAIN q))

(***************************************************************************)
(* github.com/google/uuid: a UUID is 16 bytes                              *)
(***************************************************************************)

\* Value of one hexadecimal digit (either case), as uuid.Parse reads it.
HexVal(c) ==
  LET l == ToLowerChar(c)
  IN  (CHOOSE i \in 1..16 : HexDigitsLower[i] = l) - 1

\* Offsets (1-based) of the first digit of each byte in the 36-character form.
UUIDByteOffsets == <<1, 3, 5, 7, 10, 12, 15, 17, 20, 22, 25, 27, 29, 31, 33, 35>>

\* uuid.MustParse of the canonical 36-character form.
UUIDMustParse(s) ==
  [i \in 1..16 |-> 16 * HexVal(s[UUIDByteOffsets[i]]) + HexVal(s[UUIDByteOffsets[i] + 1])]

\* uuid.UUID.String: lower-case hex, dashes after bytes 4, 6, 8 and 10.
RECURSIVE UUIDHex(_, _)
UUIDHex(u, i) ==
  IF i > Len(u) THEN <<>>
  ELSE (IF i \in {5, 7, 9, 11} THEN <<"-">> ELSE <<>>)
       \o <<HexDigitsLower[(u[i] \div 16) + 1], HexDigitsLower[(u[i] % 16) + 1]>>
       \o UUIDHex(u, i + 1)

UUIDString(u) == UUIDHex(u, 1)

\* services.FreeTierUserUUID
FreeTierUserUUID ==
  UUIDMustParse(<<"5", "c", "c", "c", "4", "3", "c", "4", "-", "3", "c", "3", "e", "-", "4", "2", "2", "0", "-", "a", "8", "7", "8", "-", "7", "6", "1", "a", "a", "1", "1", "8", "2", "d", "d", "9">>)

(***************************************************************************)
(* Errors: a Go error is the chain of its layers, outermost first; nil is  *)
(* the empty chain.  fmt.Errorf with %w puts a layer in front of the chain *)
(* it wraps; errors.New and fmt.Errorf without %w start a new chain.       *)
(***************************************************************************)

NoError == <<>>

Layer(text, arg) == [text |-> text, arg |-> arg]

ErrorsNew(text, arg) == <<Layer(text, arg)>>

Wrap(text, inner) == <<Layer(text, <<>>)>> \o inner

\* gorm.ErrRecordNotFound
ErrRecordNotFound == ErrorsNew("record not found", <<>>)

\* context.Canceled, the error of a call whose context is done.
ContextCanceled == ErrorsNew("context canceled", <<>>)

\* A comparison with == instead of errors.Is: wrapped errors do not match.
ErrorsIs_noUnwrap(err, target) == err = target

\* errors.Is(err, target) for a sentinel target.
ErrorsIs(err, target) == \E i \in 1..Len(err) : err[i] = target[1]

(***************************************************************************)
(* Key encoder                                                             *)
(***************************************************************************)

K_security == <<"s", "e", "c", "u", "r", "i", "t", "y">>

K_sni == <<"s", "n", "i">>

K_fp == <<"f", "p">>

K_pbk == <<"p", "b", "k">>

K_sid == <<"s", "i", "d">>

K_flow == <<"f", "l", "o", "w">>

K_type == <<"t", "y", "p", "e">>

S_none == <<"n", "o", "n", "e">>

S_reality == <<"r", "e", "a", "l", "i", "t", "y">>

S_tcp == <<"t", "c", "p">>

S_vless == <<"v", "l", "e", "s", "s", ":", "/", "/">>

\* No security parameter at all.
WithSecurity_never(qp, host) == qp

\* The security parameter set without looking at its value.
WithSecurity_always(qp, host) == ValuesSet(qp, K_security, host.SecurityType)

\* if host.SecurityType != "" && host.SecurityType != "none" { Set("security", ...) }
WithSecurity(qp, host) ==
  IF host.SecurityType # <<>> /\ host.SecurityType # S_none
  THEN ValuesSet(qp, K_security, host.SecurityType)
  ELSE qp

\* The SNI set without looking at its value.
WithSNI_always(qp, host) == ValuesSet(qp, K_sni, host.SNI)

\* if host.SNI != "" { Set("sni", ...) }
WithSNI(qp, host) ==
  IF host.SNI # <<>> THEN ValuesSet(qp, K_sni, host.SNI) ELSE qp

\* if host.Fingerprint != "" { Set("fp", ...) }
WithFingerprint(qp, host) ==
  IF host.Fingerprint # <<>> THEN ValuesSet(qp, K_fp, host.Fingerprint) ELSE qp

\* The comparison without the case folding.
IsReality_caseSensitive(host) == host.SecurityType = S_reality

\* strings.ToLower(host.SecurityType) == "reality"
IsReality(host) == ToLower(host.SecurityType) = S_reality

\* The public key emitted for any host that has one.
WithReality_pbkAnyHost(qp, host) ==
  LET withPbk == IF host.PublicKey # <<>> THEN ValuesSet(qp, K_pbk, host.PublicKey) ELSE qp
  IN  IF IsReality(host) /\ host.RSID # <<>> THEN ValuesSet(withPbk, K_sid, host.RSID) ELSE withPbk

\* The short ID emitted for any host that has one.
WithReality_sidAnyHost(qp, host) ==
  LET withPbk == IF IsReality(host) THEN ValuesSet(qp, K_pbk, host.PublicKey) ELSE qp
  IN  IF host.RSID # <<>> THEN ValuesSet(withPbk, K_sid, host.RSID) ELSE withPbk

\* The reality block once the public key is known to be present: pbk, and sid
\* when the short ID is set.
WithReality(qp, host) ==
  IF IsReality(host)
  THEN LET withPbk == ValuesSet(qp, K_pbk, host.PublicKey)
       IN  IF host.RSID # <<>> THEN ValuesSet(withPbk, K_sid, host.RSID) ELSE withPbk
  ELSE qp

\* if host.Flow != "" { Set("flow", ...) }
WithFlow(qp, host) ==
  IF host.Flow # <<>> THEN ValuesSet(qp, K_flow, host.Flow) ELSE qp

\* The network type without the default.
WithNetwork_noDefault(qp, host) ==
  IF host.Network # <<>> THEN ValuesSet(qp, K_type, host.Network) ELSE qp

\* The network type, "tcp" when the host has none.
WithNetwork(qp, host) ==
  IF host.Network # <<>>
  THEN ValuesSet(qp, K_type, host.Network)
  ELSE ValuesSet(qp, K_type, S_tcp)

\* The two formats taken the wrong way round.
FormatURL_inverted(vlessUserID, host, queryString) ==
  LET base == S_vless \o vlessUserID \o <<"@">> \o host.Address \o <<":">> \o host.Port
  IN  IF queryString = <<>> THEN base \o <<"?">> \o queryString ELSE base

\* fmt.Sprintf("vless://%s@%s:%s?%s", ...) or, on an empty query, without "?".
FormatURL(vlessUserID, host, queryString) ==
  LET base == S_vless \o vlessUserID \o <<"@">> \o host.Address \o <<":">> \o host.Port
  IN  IF queryString # <<>> THEN base \o <<"?">> \o queryString ELSE base

\* if remarks != "" { vlessURL = vlessURL + "#" + url.PathEscape(remarks) }
WithRemarks(vlessURL, remarks) ==
  IF remarks # <<>> THEN vlessURL \o <<"#">> \o PathEscape(remarks) ELSE vlessURL

\* The error of a reality host that has no public key.
MissingPublicKey(hostID) ==
  ErrorsNew("selected host (ID: %d) is configured for Reality but missing public key (pbk)",
            <<hostID>>)

\* keyService.constructVlessURL: the pair (URL, error) it returns.
constructVlessURL(vlessUserID, host, remarks) ==
  IF IsReality(host) /\ host.PublicKey = <<>>
  THEN [url |-> <<>>, err |-> MissingPublicKey(host.ID)]
  ELSE LET queryParams ==
             WithNetwork(WithFlow(WithReality(WithFingerprint(WithSNI(
               WithSecurity(EmptyValues, host), host), host), host), host), host)
           queryString == ValuesEncode(queryParams)
       IN  [url |-> WithRemarks(FormatURL(vlessUserID, host, queryString), remarks),
            err |-> NoError]

(***************************************************************************)
(* Bounds and input sets                                                   *)
(***************************************************************************)

\* Number of host rows in the host table.
NumHosts == 3

HostIds == 1..NumHosts

C_US == <<"U", "S">>

C_DE == <<"D", "E">>

\* A *string argument: nil, or a pointer to a string.
NilString == [isNil |-> TRUE, val |-> <<>>]

StringPtr(s) == [isNil |-> FALSE, val |-> s]

\* A *bool argument: nil, or a pointer to a bool.
NilBool == [isNil |-> TRUE, val |-> FALSE]

BoolPtr(b) == [isNil |-> FALSE, val |-> b]

CountryArgs == {NilString, StringPtr(<<>>), StringPtr(C_US), StringPtr(C_DE)}

RemarksArgs == {<<>>, <<"M", "y", " ", "K", "e", "y">>}

\* A registered user and an ID nobody is registered under.
UserA == UUIDMustParse(<<"0", "0", "0", "0", "0", "0", "0", "0", "-", "0", "0", "0", "0", "-", "0", "0", "0", "0", "-", "0", "0", "0", "0", "-", "0", "0", "0", "0", "0", "0", "0", "0", "0", "0", "0", "1">>)

UserB == UUIDMustParse(<<"0", "1", "9", "6", "F", "1", "A", "0", "-", "7", "C", "4", "E", "-", "7", "B", "2", "1", "-", "9", "D", "3", "3", "-", "5", "A", "0", "C", "2", "E", "8", "F", "4", "B", "1", "7">>)

UserIDs == {UserA, UserB}

\* customTypes.HostStatus values a monitor reports.
StatusActive == "active"

StatusMaintenance == "maintenance"

\* What the monitor reports about a host: online and active, online under
\* maintenance, or offline.
MonitorReports ==
  {[IsOnline |-> TRUE, Status |-> StatusActive],
   [IsOnline |-> TRUE, Status |-> StatusMaintenance],
   [IsOnline |-> FALSE, Status |-> StatusMaintenance]}

\* Failures of the database connection that a query can report.
DBErrors == {ErrorsNew("dial tcp: connection refused", <<>>)}

\* A failure the query of the user table can report besides: the table is gone.
UserStoreErrors == {ErrorsNew("ERROR: relation users not found", <<>>)}

(***************************************************************************)
(* models.Host rows.  The descriptor columns of a row are fixed; IsOnline  *)
(* and Status are what the monitor changes.                                *)
(***************************************************************************)

HostRow(id, country, free, sec, pbk, sid, sni, fp, flow, net) ==
  [ID |-> id, Country |-> country, Address |-> <<"1", ".", "2", ".", "3", ".">> \o <<HexDigitsLower[(id % 10) + 1]>>,
   Port |-> <<"4", "4", "3">>, Network |-> net, PublicKey |-> pbk, Flow |-> flow, RSID |-> sid,
   SecurityType |-> sec, SNI |-> sni, Fingerprint |-> fp,
   IsOnline |-> FALSE, IsFreeTier |-> free, Status |-> StatusMaintenance]

HostCatalog(id) ==
  CASE id % 4 = 1 -> \* free, US, Reality without its public key
         HostRow(id, C_US, TRUE, <<"R", "e", "a", "l", "i", "t", "y">>, <<>>, <<"S", "I", "D", "1">>, <<>>, <<>>, <<>>, <<>>)
    [] id % 4 = 2 -> \* free, DE, complete reality host
         HostRow(id, C_DE, TRUE, S_reality, <<"P", "B", "K", "1", "2", "3">>, <<"S", "I", "D", "1">>,
                 <<"a", ".", "e", "x", "a", "m", "p", "l", "e">>, <<"c", "h", "r", "o", "m", "e">>, <<"x", "t", "l", "s", "-", "r", "p", "r", "x", "-", "v", "i", "s", "i", "o", "n">>, <<>>)
    [] id % 4 = 3 -> \* paid, DE, tls over websocket
         HostRow(id, C_DE, FALSE, <<"t", "l", "s">>, <<>>, <<>>, <<"b", ".", "e", "x", "a", "m", "p", "l", "e">>, <<>>, <<>>, <<"w", "s">>)
    [] OTHER      -> \* paid, US, no security
         HostRow(id, C_US, FALSE, S_none, <<>>, <<>>, <<>>, <<>>, <<>>, <<>>)

\* The zero models.Host (what a nil *models.Host stands for in the model).
NoHost == HostRow(0, <<>>, FALSE, <<>>, <<>>, <<>>, <<>>, <<>>, <<>>, <<>>)

(***************************************************************************)
(* State                                                                   *)
(***************************************************************************)

VARIABLES
  hosts,      \* host table: HostIds -> models.Host
  users,      \* user table: the IDs of the registered users
  subs,       \* subscription table: the users with an active subscription
  pc,         \* where the request in flight stands
  req,        \* its arguments: op, userID, remarks, country
  user,       \* local user (the ID of the row GetByID returned)
  hasActiveSubscription,  \* local of GenerateVlessKeyForUser
  hostTier,   \* local hostTier / isFreeHost: TRUE asks for free hosts
  q,          \* the GetRandomActiveHost call in progress
  host,       \* local host
  ret,        \* what the call returned
  calls,      \* the collaborator calls of the request, in order
  cancelled,  \* the request's context is done
  resp,       \* the HTTP response of the key endpoint
  sub,        \* subscription service: the stored subscription, the clock, the last call
  app         \* Application: its goroutines, the HTTP server and the database

vars == <<hosts, users, subs, pc, req, user, hasActiveSubscription, hostTier,
          q, host, ret, calls, cancelled, resp, sub, app>>

\* The state of one key request and of the stores it reads.
keyVars == <<hosts, users, subs, pc, req, user, hasActiveSubscription, hostTier,
             q, host, ret, calls, cancelled, resp>>

\* What a step of a key request leaves alone besides the locals it names.
restVars == <<cancelled, resp, sub, app>>

storeVars == <<hosts, users, subs>>

NoReq == [op |-> "none", userID |-> UserA, remarks |-> <<>>, country |-> NilString]

NoQuery == [country |-> NilString, isFreeTier |-> NilBool, attempt |-> 0]

NoRet == [isNil |-> TRUE, VlessKey |-> <<>>, HasActiveSubscription |-> FALSE, err |-> NoError]

\* No response has been written.
NoResp == [status |-> 0, body |-> <<>>]

\* The subscription service and the application at rest.
NoSub == [phase |-> "off"]

NoApp == [phase |-> "off"]

\* A collaborator call as the request made it, and, once it has returned, what
\* it returned: the host row (hostID, 0 for none), the bool and the error.
Call(fn, id, country, free) ==
  [fn |-> fn, id |-> id, country |-> country, isFreeTier |-> free,
   returned |-> FALSE, hostID |-> 0, has |-> FALSE, err |-> NoError]

\* The log once its last call has returned.
Returned(log, hostID, has, err) ==
  [log EXCEPT ![Len(log)] = [@ EXCEPT !.returned = TRUE, !.hostID = hostID,
                                      !.has = has, !.err = err]]

\* The service is up: the host table is loaded and no request is in flight.
ServiceInit ==
  /\ hosts = [h \in HostIds |-> HostCatalog(h)]
  /\ users = {UserA}
  /\ subs \in SUBSET {UserA}
  /\ pc = "idle"
  /\ req = NoReq
  /\ user = UserA
  /\ hasActiveSubscription = FALSE
  /\ hostTier = FALSE
  /\ q = NoQuery
  /\ host = NoHost
  /\ ret = NoRet
  /\ calls = <<>>
  /\ cancelled = FALSE
  /\ resp = NoResp
  /\ sub = NoSub
  /\ app = NoApp

\* Host descriptors handed to the encoder when it is exercised on its own.
EncodeHosts ==
  {[HostRow(1, C_US, TRUE, sec, pbk, sid, sni, fp, flow, net) EXCEPT !.IsOnline = TRUE] :
     sec \in {<<>>, S_none, S_reality, <<"R", "e", "a", "l", "i", "t", "y">>, <<"t", "l", "s">>, <<"N", "o", "n", "e">>},
     pbk \in {<<>>, <<"P", "B", "K", "1", "2", "3">>},
     sid \in {<<>>, <<"S", "I", "D", "1">>},
     sni \in {<<>>, <<"a", " ", "b", "&", "c", "=", "d", ".", "e", "x", "a", "m", "p", "l", "e">>},
     fp \in {<<>>, <<"c", "h", "r", "o", "m", "e">>},
     flow \in {<<>>, <<"x", "t", "l", "s", "-", "r", "p", "r", "x", "-", "v", "i", "s", "i", "o", "n">>},
     net \in {<<>>, <<"w", "s">>}}

\* The hosts of the documented scenarios: address 1.2.3.4, port 443, nothing
\* optional set, with security "none" and with a complete reality setup.
ScenarioHosts ==
  {HostRow(4, C_US, TRUE, S_none, <<>>, <<>>, <<>>, <<>>, <<>>, <<>>),
   HostRow(4, C_US, TRUE, S_reality, <<"P", "B", "K", "1", "2", "3">>, <<"S", "I", "D", "1">>, <<>>, <<>>, <<>>, <<>>)}

EncodeRemarks == {<<>>, <<"T", "e", "s", "t">>, <<"M", "y", " ", "K", "e", "y", "/", "1", "+", "2">>}

\* A call constructVlessURL(clientID, host, remarks) is about to run, on any
\* host descriptor, outside a request.
EncodeInit ==
  /\ hosts = <<>>
  /\ users = {}
  /\ subs = {}
  /\ pc = "encode"
  /\ req \in [op : {"encode"}, userID : {UserA, FreeTierUserUUID},
              remarks : EncodeRemarks, country : {NilString}]
  /\ user = req.userID
  /\ hasActiveSubscription = FALSE
  /\ hostTier = FALSE
  /\ q = NoQuery
  /\ host \in EncodeHosts \cup ScenarioHosts
  /\ ret = NoRet
  /\ calls = <<>>
  /\ cancelled = FALSE
  /\ resp = NoResp
  /\ sub = NoSub
  /\ app = NoApp

Init == ServiceInit \/ EncodeInit

(***************************************************************************)
(* Host monitoring: hostService.UpdateHostOnlineStatus                     *)
(***************************************************************************)

UpdateHostOnlineStatus(hostID, isOnline, status) ==
  /\ hostID \in DOMAIN hosts
  /\ hosts' = [hosts EXCEPT ![hostID].IsOnline = isOnline, ![hostID].Status = status]
  /\ hosts' # hosts
  /\ UNCHANGED <<users, subs, pc, req, user, hasActiveSubscription, hostTier,
                 q, host, ret, calls>>
  /\ UNCHANGED restVars

(***************************************************************************)
(* Queries run with db.WithContext(ctx): once the context is done a query  *)
(* returns the context's error and no rows.                                *)
(***************************************************************************)

\* The failures a query can report.
StoreErrors == IF cancelled THEN {ContextCanceled} ELSE DBErrors

(***************************************************************************)
(* Host store: hostRepository.GetRandomActiveHost(ctx, country, isFreeTier)*)
(***************************************************************************)

\* The WHERE conditions the tier and country arguments add to every query;
\* a nil argument adds none.
MatchesFilter(h, country, isFreeTier) ==
  /\ (~isFreeTier.isNil => h.IsFreeTier = isFreeTier.val)
  /\ (~country.isNil => h.Country = country.val)

\* Rows of "is_online = true AND status = 'active'" under the filter.
ActiveRows(hs, country, isFreeTier) ==
  {i \in DOMAIN hs : /\ hs[i].IsOnline
                     /\ hs[i].Status = StatusActive
                     /\ MatchesFilter(hs[i], country, isFreeTier)}

\* Every row under the filter, online or not.
OnlineRows_anyHost(hs, country, isFreeTier) ==
  {i \in DOMAIN hs : MatchesFilter(hs[i], country, isFreeTier)}

\* Rows of "is_online = true" under the filter.
OnlineRows(hs, country, isFreeTier) ==
  {i \in DOMAIN hs : hs[i].IsOnline /\ MatchesFilter(hs[i], country, isFreeTier)}

(***************************************************************************)
(* Key service: what it does with the (host, err) a GetRandomActiveHost    *)
(* call returned, up to its next collaborator call or its return.          *)
(***************************************************************************)

\* The literal the earlier GenerateFreeVlessKey puts into its URLs.
freeUserID == <<"0", "1", "9", "6", "e", "c", "f", "3", "-", "2", "5", "5", "7", "-", "7", "a", "e", "b", "-", "8", "5", "9", "3", "-", "6", "0", "9", "9", "e", "e", "8", "c", "b", "8", "4", "d">>

\* The vlessUserID argument of the encoder.
ClientID ==
  CASE req.op = "user"   -> UUIDString(user)
    [] req.op = "free"   -> UUIDString(FreeTierUserUUID)
    [] req.op = "freeV1" -> freeUserID
    [] OTHER             -> UUIDString(req.userID)

NoHostsText ==
  CASE req.op = "user" -> "no active hosts available to generate key for the specified criteria"
    [] req.op = "free" -> "no active free hosts available to generate key"
    [] OTHER           -> "no active hosts available to generate key"

HostLookupText ==
  IF req.op = "free"
  THEN "could not retrieve an active free host"
  ELSE "could not retrieve an active host"

\* if country != nil
CountryGiven_nonNil(country) == ~country.isNil

\* if country != nil && *country != ""
CountryGiven(country) == ~country.isNil /\ country.val # <<>>

\* The key service retries after its first host query when that reported
\* gorm.ErrRecordNotFound and a country was asked for.
WantsFallback(err) ==
  /\ req.op \in {"user", "free"}
  /\ q.attempt = 1
  /\ ErrorsIs(err, ErrRecordNotFound)
  /\ CountryGiven(req.country)

\* A retry that keeps the country filter.
FallbackQuery_keepCountry == [country |-> req.country, isFreeTier |-> BoolPtr(hostTier), attempt |-> 2]

\* The second query: no country, the same tier pointer.
FallbackQuery == [country |-> NilString, isFreeTier |-> BoolPtr(hostTier), attempt |-> 2]

\* A lookup failure that names the step and drops the cause.
HostLookupError_dropsCause(err) ==
  IF ErrorsIs(err, ErrRecordNotFound)
  THEN ErrorsNew(NoHostsText, <<>>)
  ELSE ErrorsNew(HostLookupText, <<>>)

\* Every failed lookup reported as "no hosts available".
HostLookupError_alwaysNotFound(err) == ErrorsNew(NoHostsText, <<>>)

\* Every failed lookup reported as a lookup failure.
HostLookupError_alwaysWrapped(err) == Wrap(HostLookupText, err)

\* The error the service returns for a failed host lookup.
HostLookupError(err) ==
  IF ErrorsIs(err, ErrRecordNotFound)
  THEN ErrorsNew(NoHostsText, <<>>)
  ELSE Wrap(HostLookupText, err)

\* The result returned once a host is selected: the encoder's error as it
\* is, or the key (and, for a user, the subscription flag).
KeyResult(h) ==
  LET enc == constructVlessURL(ClientID, h, req.remarks)
  IN  IF enc.err # NoError
      THEN [NoRet EXCEPT !.err = enc.err]
      ELSE [isNil |-> FALSE, VlessKey |-> enc.url,
            HasActiveSubscription |-> hasActiveSubscription, err |-> NoError]

Finish(r) ==
  /\ pc' = "done"
  /\ ret' = r
  /\ q' = NoQuery

HostReturned(h, err) ==
  IF err # NoError /\ WantsFallback(err)
  THEN /\ q' = FallbackQuery
       /\ calls' = Append(Returned(calls, 0, FALSE, err),
                          Call("GetRandomActiveHost", <<>>, FallbackQuery.country,
                               FallbackQuery.isFreeTier))
       /\ pc' = "countActive"
       /\ UNCHANGED <<host, ret>>
  ELSE IF err # NoError
  THEN /\ Finish([NoRet EXCEPT !.err = HostLookupError(err)])
       /\ calls' = Returned(calls, 0, FALSE, err)
       /\ UNCHANGED host
  ELSE /\ host' = h
       /\ calls' = Returned(calls, h.ID, FALSE, NoError)
       /\ Finish(KeyResult(h))

\* The first GetRandomActiveHost call of a request.
FirstHostQuery(country, tier) ==
  /\ q' = [country |-> country, isFreeTier |-> tier, attempt |-> 1]
  /\ pc' = "countActive"

(***************************************************************************)
(* The four queries of GetRandomActiveHost, one step each                  *)
(***************************************************************************)

\* Count of the online hosts with status 'active'.
HostCountActive ==
  /\ pc = "countActive"
  /\ \/ \E e \in StoreErrors :
          HostReturned(NoHost, Wrap("failed to count active hosts with 'active' status", e))
     \/ /\ ~cancelled
        /\ LET count == Cardinality(ActiveRows(hosts, q.country, q.isFreeTier))
           IN  /\ pc' = IF count > 0 THEN "pickActive" ELSE "countOnline"
               /\ UNCHANGED <<q, host, ret, calls>>
  /\ UNCHANGED <<hosts, users, subs, req, user, hasActiveSubscription, hostTier>>
  /\ UNCHANGED restVars

\* ORDER BY RANDOM() ... First over the online hosts with status 'active'.
HostPickActive ==
  /\ pc = "pickActive"
  /\ \/ \E e \in StoreErrors :
          HostReturned(NoHost, Wrap("failed to get random host with 'active' status", e))
     \/ /\ ~cancelled
        /\ LET rows == ActiveRows(hosts, q.country, q.isFreeTier)
           IN  IF rows = {}
               THEN HostReturned(NoHost, Wrap("failed to get random host with 'active' status",
                                              ErrRecordNotFound))
               ELSE \E i \in rows : HostReturned(hosts[i], NoError)
  /\ UNCHANGED <<hosts, users, subs, req, user, hasActiveSubscription, hostTier>>
  /\ UNCHANGED restVars

\* Count of the online hosts of any status.
HostCountOnline ==
  /\ pc = "countOnline"
  /\ \/ \E e \in StoreErrors :
          HostReturned(NoHost, Wrap("failed to count any online hosts (fallback query)", e))
     \/ /\ ~cancelled
        /\ LET count == Cardinality(OnlineRows(hosts, q.country, q.isFreeTier))
           IN  IF count = 0
               THEN HostReturned(NoHost, ErrRecordNotFound)
               ELSE /\ pc' = "pickOnline"
                    /\ UNCHANGED <<q, host, ret, calls>>
  /\ UNCHANGED <<hosts, users, subs, req, user, hasActiveSubscription, hostTier>>
  /\ UNCHANGED restVars

\* ORDER BY RANDOM() ... First over the online hosts.
HostPickOnline ==
  /\ pc = "pickOnline"
  /\ \/ \E e \in StoreErrors :
          HostReturned(NoHost, Wrap("failed to get random online host (fallback query)", e))
     \/ /\ ~cancelled
        /\ LET rows == OnlineRows(hosts, q.country, q.isFreeTier)
           IN  IF rows = {}
               THEN HostReturned(NoHost, Wrap("failed to get random online host (fallback query)",
                                              ErrRecordNotFound))
               ELSE \E i \in rows : HostReturned(hosts[i], NoError)
  /\ UNCHANGED <<hosts, users, subs, req, user, hasActiveSubscription, hostTier>>
  /\ UNCHANGED restVars

(***************************************************************************)
(* keyService.GenerateVlessKeyForUser                                      *)
(***************************************************************************)

\* The call is made: GenerateVlessKeyForUser(ctx, userID, remarks, country).
StartUserKey(userID, remarks, country) ==
  /\ pc = "idle"
  /\ req' = [op |-> "user", userID |-> userID, remarks |-> remarks, country |-> country]
  /\ calls' = <<Call("GetByID", userID, NilString, NilBool)>>
  /\ pc' = "getUser"
  /\ UNCHANGED <<hosts, users, subs, user, hasActiveSubscription, hostTier, q, host, ret>>
  /\ UNCHANGED restVars

\* userRepository.GetByID: the error First leaves when no row has the ID.
UserLookup(userID) == IF userID \in users THEN NoError ELSE ErrRecordNotFound

\* What userRepo.GetByID can return for the ID.
UserAnswers(userID) ==
  IF cancelled THEN StoreErrors
  ELSE {UserLookup(userID)} \cup StoreErrors \cup UserStoreErrors

\* The store's error handed on as it came.
UserLookupError_raw(err, userID) == err

\* Every failed user lookup reported as a lookup failure.
UserLookupError_alwaysWrapped(err, userID) == Wrap("could not retrieve user", err)

\* The error GenerateVlessKeyForUser returns for a failed user lookup.
UserLookupError(err, userID) ==
  IF ErrorsIs(err, ErrRecordNotFound)
  THEN ErrorsNew("user with ID %s not found", userID)
  ELSE Wrap("could not retrieve user", err)

\* userRepo.GetByID returns, and the service checks its error.
UserGetByID ==
  /\ pc = "getUser"
  /\ \E err \in UserAnswers(req.userID) :
        IF err # NoError
        THEN /\ Finish([NoRet EXCEPT !.err = UserLookupError(err, req.userID)])
             /\ calls' = Returned(calls, 0, FALSE, err)
             /\ UNCHANGED user
        ELSE /\ user' = req.userID
             /\ calls' = Append(Returned(calls, 0, FALSE, NoError),
                                Call("CheckUserActiveSubscription", req.userID,
                                     NilString, NilBool))
             /\ pc' = "checkSub"
             /\ UNCHANGED <<ret, q>>
  /\ UNCHANGED <<hosts, users, subs, req, hasActiveSubscription, hostTier, host>>
  /\ UNCHANGED restVars

\* What subscriptionRepo.CheckUserActiveSubscription can return: the answer of
\* the subscription table, or an error next to either bool.
SubscriptionAnswers(userID) ==
  (IF cancelled THEN {} ELSE {[has |-> userID \in subs, err |-> NoError]})
    \cup {[has |-> b, err |-> e] : b \in BOOLEAN, e \in StoreErrors}

\* The bool taken as returned, error or not.
SubscriptionDecision_keepBool(answer) == answer.has

\* hasActiveSubscription after the error check: false when the check failed.
SubscriptionDecision(answer) ==
  IF answer.err # NoError THEN FALSE ELSE answer.has

\* The tier flag the wrong way round.
TierFor_inverted(has) == has

\* hostTier: true (free hosts) without an active subscription, false (paid) with one.
TierFor(has) == IF has THEN FALSE ELSE TRUE

\* The check that also drops the subscription row of a user it found
\* without an active subscription.
CheckUserActiveSubscription_writesBack ==
  /\ pc = "checkSub"
  /\ \E answer \in SubscriptionAnswers(req.userID) :
        LET has == SubscriptionDecision(answer)
            tier == TierFor(has)
        IN  /\ hasActiveSubscription' = has
            /\ hostTier' = tier
            /\ subs' = IF has THEN subs ELSE subs \ {req.userID}
            /\ FirstHostQuery(req.country, BoolPtr(tier))
            /\ calls' = Append(Returned(calls, 0, answer.has, answer.err),
                               Call("GetRandomActiveHost", <<>>, req.country, BoolPtr(tier)))
  /\ UNCHANGED <<hosts, users, req, user, host, ret>>
  /\ UNCHANGED restVars

\* subscriptionRepo.CheckUserActiveSubscription returns; the tier is decided
\* and the first host query is issued.
CheckUserActiveSubscription ==
  /\ pc = "checkSub"
  /\ \E answer \in SubscriptionAnswers(req.userID) :
        LET has == SubscriptionDecision(answer)
            tier == TierFor(has)
        IN  /\ hasActiveSubscription' = has
            /\ hostTier' = tier
            /\ FirstHostQuery(req.country, BoolPtr(tier))
            /\ calls' = Append(Returned(calls, 0, answer.has, answer.err),
                               Call("GetRandomActiveHost", <<>>, req.country, BoolPtr(tier)))
  /\ UNCHANGED <<hosts, users, subs, req, user, host, ret>>
  /\ UNCHANGED restVars

(***************************************************************************)
(* keyService.GenerateFreeVlessKey                                         *)
(***************************************************************************)

\* The flag set for paid hosts.
isFreeHost_paid == FALSE

\* isFreeHost := true
isFreeHost == TRUE

\* The call GenerateFreeVlessKey(ctx, remarks, country) is made and issues
\* its first host query.
StartFreeKey(remarks, country) ==
  /\ pc = "idle"
  /\ req' = [op |-> "free", userID |-> FreeTierUserUUID, remarks |-> remarks, country |-> country]
  /\ hostTier' = isFreeHost
  /\ FirstHostQuery(country, BoolPtr(isFreeHost))
  /\ calls' = <<Call("GetRandomActiveHost", <<>>, country, BoolPtr(isFreeHost))>>
  /\ UNCHANGED <<hosts, users, subs, user, hasActiveSubscription, host, ret>>
  /\ UNCHANGED restVars

\* The earlier GenerateFreeVlessKey(ctx, remarks): one GetRandomActiveHost(ctx)
\* over all hosts, and the literal freeUserID in the URL.
StartFreeKeyV1(remarks) ==
  /\ pc = "idle"
  /\ req' = [op |-> "freeV1", userID |-> FreeTierUserUUID, remarks |-> remarks,
             country |-> NilString]
  /\ FirstHostQuery(NilString, NilBool)
  /\ calls' = <<Call("GetRandomActiveHost", <<>>, NilString, NilBool)>>
  /\ UNCHANGED <<hosts, users, subs, user, hasActiveSubscription, hostTier, host, ret>>
  /\ UNCHANGED restVars

\* constructVlessURL runs on the arguments of the encoder call.
Encode ==
  /\ pc = "encode"
  /\ LET enc == constructVlessURL(UUIDString(req.userID), host, req.remarks)
     IN  ret' = [isNil |-> enc.err # NoError, VlessKey |-> enc.url,
                 HasActiveSubscription |-> FALSE, err |-> enc.err]
  /\ pc' = "encoded"
  /\ UNCHANGED <<hosts, users, subs, req, user, hasActiveSubscription, hostTier,
                 q, host, calls>>
  /\ UNCHANGED restVars

(***************************************************************************)
(* The key endpoints: KeyHandler.GenerateUserVlessKey and                  *)
(* KeyHandler.GenerateFreeVlessKey, from the return of the service call on *)
(***************************************************************************)

\* The characters of the message texts of the errors.
TextChars(text) ==
  CASE text = "could not retrieve an active free host" ->
         <<"c", "o", "u", "l", "d", " ", "n", "o", "t", " ", "r", "e", "t", "r", "i", "e", "v", "e", " ", "a", "n", " ", "a", "c", "t", "i", "v", "e", " ", "f", "r", "e", "e", " ", "h", "o", "s", "t">>
    [] text = "could not retrieve an active host" ->
         <<"c", "o", "u", "l", "d", " ", "n", "o", "t", " ", "r", "e", "t", "r", "i", "e", "v", "e", " ", "a", "n", " ", "a", "c", "t", "i", "v", "e", " ", "h", "o", "s", "t">>
    [] text = "could not retrieve user" ->
         <<"c", "o", "u", "l", "d", " ", "n", "o", "t", " ", "r", "e", "t", "r", "i", "e", "v", "e", " ", "u", "s", "e", "r">>
    [] text = "dial tcp: connection refused" ->
         <<"d", "i", "a", "l", " ", "t", "c", "p", ":", " ", "c", "o", "n", "n", "e", "c", "t", "i", "o", "n", " ", "r", "e", "f", "u", "s", "e", "d">>
    [] text = "ERROR: relation users not found" ->
         <<"E", "R", "R", "O", "R", ":", " ", "r", "e", "l", "a", "t", "i", "o", "n", " ", "u", "s", "e", "r", "s", " ", "n", "o", "t", " ", "f", "o", "u", "n", "d">>
    [] text = "context canceled" ->
         <<"c", "o", "n", "t", "e", "x", "t", " ", "c", "a", "n", "c", "e", "l", "e", "d">>
    [] text = "failed to count active hosts with 'active' status" ->
         <<"f", "a", "i", "l", "e", "d", " ", "t", "o", " ", "c", "o", "u", "n", "t", " ", "a", "c", "t", "i", "v", "e", " ", "h", "o", "s", "t", "s", " ", "w", "i", "t", "h", " ", "'", "a", "c", "t", "i", "v", "e", "'", " ", "s", "t", "a", "t", "u", "s">>
    [] text = "failed to count any online hosts (fallback query)" ->
         <<"f", "a", "i", "l", "e", "d", " ", "t", "o", " ", "c", "o", "u", "n", "t", " ", "a", "n", "y", " ", "o", "n", "l", "i", "n", "e", " ", "h", "o", "s", "t", "s", " ", "(", "f", "a", "l", "l", "b", "a", "c", "k", " ", "q", "u", "e", "r", "y", ")">>
    [] text = "failed to get random host with 'active' status" ->
         <<"f", "a", "i", "l", "e", "d", " ", "t", "o", " ", "g", "e", "t", " ", "r", "a", "n", "d", "o", "m", " ", "h", "o", "s", "t", " ", "w", "i", "t", "h", " ", "'", "a", "c", "t", "i", "v", "e", "'", " ", "s", "t", "a", "t", "u", "s">>
    [] text = "failed to get random online host (fallback query)" ->
         <<"f", "a", "i", "l", "e", "d", " ", "t", "o", " ", "g", "e", "t", " ", "r", "a", "n", "d", "o", "m", " ", "o", "n", "l", "i", "n", "e", " ", "h", "o", "s", "t", " ", "(", "f", "a", "l", "l", "b", "a", "c", "k", " ", "q", "u", "e", "r", "y", ")">>
    [] text = "no active free hosts available to generate key" ->
         <<"n", "o", " ", "a", "c", "t", "i", "v", "e", " ", "f", "r", "e", "e", " ", "h", "o", "s", "t", "s", " ", "a", "v", "a", "i", "l", "a", "b", "l", "e", " ", "t", "o", " ", "g", "e", "n", "e", "r", "a", "t", "e", " ", "k", "e", "y">>
    [] text = "no active hosts available to generate key for the specified criteria" ->
         <<"n", "o", " ", "a", "c", "t", "i", "v", "e", " ", "h", "o", "s", "t", "s", " ", "a", "v", "a", "i", "l", "a", "b", "l", "e", " ", "t", "o", " ", "g", "e", "n", "e", "r", "a", "t", "e", " ", "k", "e", "y", " ", "f", "o", "r", " ", "t", "h", "e", " ", "s", "p", "e", "c", "i", "f", "i", "e", "d", " ", "c", "r", "i", "t", "e", "r", "i", "a">>
    [] text = "no active hosts available to generate key" ->
         <<"n", "o", " ", "a", "c", "t", "i", "v", "e", " ", "h", "o", "s", "t", "s", " ", "a", "v", "a", "i", "l", "a", "b", "l", "e", " ", "t", "o", " ", "g", "e", "n", "e", "r", "a", "t", "e", " ", "k", "e", "y">>
    [] text = "record not found" ->
         <<"r", "e", "c", "o", "r", "d", " ", "n", "o", "t", " ", "f", "o", "u", "n", "d">>
    [] OTHER -> <<"?">>

\* strconv of a host ID (%d).
RECURSIVE Decimal(_)
Decimal(n) ==
  IF n < 10 THEN <<HexDigitsLower[n + 1]>>
  ELSE Decimal(n \div 10) \o <<HexDigitsLower[(n % 10) + 1]>>

\* The message of one layer, its verb filled in.
LayerString(l) ==
  CASE l.text = "user with ID %s not found" ->
         <<"u", "s", "e", "r", " ", "w", "i", "t", "h", " ", "I", "D", " ">> \o UUIDString(l.arg) \o <<" ", "n", "o", "t", " ", "f", "o", "u", "n", "d">>
    [] l.text = "selected host (ID: %d) is configured for Reality but missing public key (pbk)" ->
         <<"s", "e", "l", "e", "c", "t", "e", "d", " ", "h", "o", "s", "t", " ", "(", "I", "D", ":", " ">> \o Decimal(l.arg[1])
           \o <<")", " ", "i", "s", " ", "c", "o", "n", "f", "i", "g", "u", "r", "e", "d", " ", "f", "o", "r", " ", "R", "e", "a", "l", "i", "t", "y", " ", "b", "u", "t", " ", "m", "i", "s", "s", "i", "n", "g", " ", "p", "u", "b", "l", "i", "c", " ", "k", "e", "y", " ", "(", "p", "b", "k", ")">>
    [] OTHER -> TextChars(l.text)

\* err.Error(): the message, each wrapped error after ": ".
RECURSIVE ErrorString(_)
ErrorString(err) ==
  IF err = <<>> THEN <<>>
  ELSE IF Len(err) = 1 THEN LayerString(err[1])
  ELSE LayerString(err[1]) \o <<":", " ">> \o ErrorString(Tail(err))

\* strings.Contains
Contains(s, substr) ==
  \E i \in 1..(Len(s) - Len(substr) + 1) : SubSeq(s, i, i + Len(substr) - 1) = substr

StatusOK == 200

StatusNotFound == 404

StatusInternalServerError == 500

StatusServiceUnavailable == 503

MsgFailed == <<"F", "a", "i", "l", "e", "d", " ", "t", "o", " ", "g", "e", "n", "e", "r", "a", "t", "e", " ", "V", "L", "E", "S", "S", " ", "k", "e", "y", ".">>

\* A handler that knows "not found" and nothing else.
UserKeyResponse_twoWay(r) ==
  IF r.err # NoError
  THEN IF Contains(ErrorString(r.err), <<"n", "o", "t", " ", "f", "o", "u", "n", "d">>)
       THEN [status |-> StatusNotFound, body |-> ErrorString(r.err)]
       ELSE [status |-> StatusInternalServerError, body |-> MsgFailed]
  ELSE [status |-> StatusOK, body |-> r.VlessKey]

\* The response of GenerateUserVlessKey to what the service returned.
UserKeyResponse(r) ==
  IF r.err # NoError
  THEN IF Contains(ErrorString(r.err), <<"n", "o", "t", " ", "f", "o", "u", "n", "d">>)
       THEN [status |-> StatusNotFound, body |-> ErrorString(r.err)]
       ELSE IF Contains(ErrorString(r.err), <<"n", "o", " ", "a", "c", "t", "i", "v", "e", " ", "h", "o", "s", "t", "s", " ", "a", "v", "a", "i", "l", "a", "b", "l", "e">>)
       THEN [status |-> StatusServiceUnavailable,
             body |-> <<"U", "n", "a", "b", "l", "e", " ", "t", "o", " ", "g", "e", "n", "e", "r", "a", "t", "e", " ", "k", "e", "y", ":", " ", "N", "o", " ", "a", "c", "t", "i", "v", "e", " ", "h", "o", "s", "t", "s", " ", "a", "r", "e", " ", "c", "u", "r", "r", "e", "n", "t", "l", "y", " ", "a", "v", "a", "i", "l", "a", "b", "l", "e", " ", "f", "o", "r", " ", "y", "o", "u", "r", " ", "c", "r", "i", "t", "e", "r", "i", "a", ".">>]
       ELSE [status |-> StatusInternalServerError, body |-> MsgFailed]
  ELSE [status |-> StatusOK, body |-> r.VlessKey]

\* The response of GenerateFreeVlessKey to what the service returned.
FreeKeyResponse(r) ==
  IF r.err # NoError
  THEN IF Contains(ErrorString(r.err), <<"n", "o", " ", "a", "c", "t", "i", "v", "e", " ", "f", "r", "e", "e", " ", "h", "o", "s", "t", "s", " ", "a", "v", "a", "i", "l", "a", "b", "l", "e">>)
       THEN [status |-> StatusServiceUnavailable,
             body |-> <<"U", "n", "a", "b", "l", "e", " ", "t", "o", " ", "g", "e", "n", "e", "r", "a", "t", "e", " ", "k", "e", "y", ":", " ", "N", "o", " ", "a", "c", "t", "i", "v", "e", " ", "f", "r", "e", "e", " ", "h", "o", "s", "t", "s", " ", "a", "r", "e", " ", "c", "u", "r", "r", "e", "n", "t", "l", "y", " ", "a", "v", "a", "i", "l", "a", "b", "l", "e", ".">>]
       ELSE [status |-> StatusInternalServerError, body |-> MsgFailed]
  ELSE [status |-> StatusOK, body |-> r.VlessKey]

RemarksDefault == <<"B", "i", "t", "t", "e", "n", "V", "P", "N">>

RemarksDefaultFree == <<"B", "i", "t", "t", "e", "n", "V", "P", "N", "-", "F", "r", "e", "e">>

\* The country pointer the handlers pass: nil unless the query names one.
CountryPtr(countryQuery) ==
  IF countryQuery # <<>> THEN StringPtr(countryQuery) ELSE NilString

\* GET /v1/users/{userID}/vless-key?remarks=..&country=..: the handler up to
\* its call of the service.
HandleUserKey(userID, remarksQuery, countryQuery) ==
  StartUserKey(userID,
               IF remarksQuery = <<>> THEN RemarksDefault ELSE remarksQuery,
               CountryPtr(countryQuery))

\* GET /v1/key/free?remarks=..&country=..: the handler up to its call of the
\* service.
HandleFreeKey(remarksQuery, countryQuery) ==
  StartFreeKey(IF remarksQuery = <<>> THEN RemarksDefaultFree ELSE remarksQuery,
               CountryPtr(countryQuery))

\* The handler writes its response to the result of the service call.
Respond ==
  /\ pc = "done"
  /\ req.op \in {"user", "free"}
  /\ resp' = IF req.op = "user" THEN UserKeyResponse(ret) ELSE FreeKeyResponse(ret)
  /\ pc' = "responded"
  /\ UNCHANGED <<hosts, users, subs, req, user, hasActiveSubscription, hostTier,
                 q, host, ret, calls, cancelled, sub, app>>

\* The response is on the wire and the handler has returned.
Sent ==
  /\ pc = "responded"
  /\ pc' = "idle"
  /\ req' = NoReq
  /\ user' = UserA
  /\ hasActiveSubscription' = FALSE
  /\ hostTier' = FALSE
  /\ host' = NoHost
  /\ ret' = NoRet
  /\ calls' = <<>>
  /\ cancelled' = FALSE
  /\ resp' = NoResp
  /\ UNCHANGED <<hosts, users, subs, q, sub, app>>

\* The caller's context is cancelled, or its deadline passes, while the
\* request is in flight.
Cancel ==
  /\ pc \in {"getUser", "checkSub", "countActive", "pickActive", "countOnline", "pickOnline"}
  /\ ~cancelled
  /\ cancelled' = TRUE
  /\ UNCHANGED <<hosts, users, subs, pc, req, user, hasActiveSubscription, hostTier,
                 q, host, ret, calls, resp, sub, app>>

\* The caller has the result and the locals of the call are gone; the next
\* request may start.
Return ==
  /\ pc = "done"
  /\ pc' = "idle"
  /\ req' = NoReq
  /\ user' = UserA
  /\ hasActiveSubscription' = FALSE
  /\ hostTier' = FALSE
  /\ host' = NoHost
  /\ ret' = NoRet
  /\ calls' = <<>>
  /\ cancelled' = FALSE
  /\ resp' = NoResp
  /\ UNCHANGED <<hosts, users, subs, q, sub, app>>

Next ==
  \/ \E h \in HostIds, m \in MonitorReports : UpdateHostOnlineStatus(h, m.IsOnline, m.Status)
  \/ \E u \in UserIDs, r \in RemarksArgs, c \in CountryArgs : StartUserKey(u, r, c)
  \/ UserGetByID
  \/ CheckUserActiveSubscription
  \/ \E r \in RemarksArgs, c \in CountryArgs : StartFreeKey(r, c)
  \/ \E r \in RemarksArgs : StartFreeKeyV1(r)
  \/ HostCountActive
  \/ HostPickActive
  \/ HostCountOnline
  \/ HostPickOnline
  \/ Encode
  \/ Return

Spec == Init /\ [][Next]_vars

\* A step of the request in flight: the goroutine serving it runs on, and
\* every store call returns (with rows, or with an error).
RequestStep ==
  \/ UserGetByID
  \/ CheckUserActiveSubscription
  \/ HostCountActive
  \/ HostPickActive
  \/ HostCountOnline
  \/ HostPickOnline

\* The query parameters of the requests to the key endpoints.
CountryQueries == {<<>>, C_US, C_DE}

RemarksQueries == {<<>>}

\* The key service behind its HTTP endpoints.
HttpNext ==
  \/ \E h \in HostIds, m \in MonitorReports : UpdateHostOnlineStatus(h, m.IsOnline, m.Status)
  \/ \E u \in UserIDs, r \in RemarksQueries, c \in CountryQueries : HandleUserKey(u, r, c)
  \/ \E r \in RemarksQueries, c \in CountryQueries : HandleFreeKey(r, c)
  \/ RequestStep
  \/ Respond
  \/ Sent

HttpSpec == ServiceInit /\ [][HttpNext]_vars

\* Requests whose context may be cancelled at any moment.
CancelNext ==
  \/ \E h \in HostIds, m \in MonitorReports : UpdateHostOnlineStatus(h, m.IsOnline, m.Status)
  \/ \E u \in UserIDs, c \in CountryArgs : StartUserKey(u, <<>>, c)
  \/ \E c \in CountryArgs : StartFreeKey(<<>>, c)
  \/ RequestStep
  \/ Cancel
  \/ Return

CancelSpec == ServiceInit /\ [][CancelNext]_vars /\ WF_vars(RequestStep)

(***************************************************************************)
(* subscriptionService.UpdatePaymentStatus over one stored subscription.   *)
(* sub holds the stored row, the clock, and the call in progress: its      *)
(* arguments, its local *sub, its result, and, for the properties, the row *)
(* and the clock as they were when the call was made (before, t0) and what *)
(* its two time.Now() calls returned (t1, t2).                             *)
(***************************************************************************)

\* The clock runs from 0 to MaxTime.
MaxTime == 3

PaymentStatuses == {"paid", "failed", "refunded", "pending"}

\* The ID of the stored subscription and an ID no row has.
SubIDs == {1, 2}

\* Rows a subscription can be stored as: created with a positive duration,
\* activated or deactivated since.
SubRows ==
  {[ID |-> 1, StartDate |-> s, EndDate |-> e, IsActive |-> a, PaymentStatus |-> p] :
     s \in 0..MaxTime, e \in 0..MaxTime, a \in BOOLEAN, p \in {"pending", "paid"}}

\* No clock reading.
NoTime == -1

NoCall == [id |-> 0, paymentStatus |-> "", local |-> <<>>, isNil |-> TRUE, err |-> NoError,
           before |-> <<>>, t0 |-> 0, t1 |-> NoTime, t2 |-> NoTime]

SubsInit ==
  /\ hosts = [h \in HostIds |-> HostCatalog(h)]
  /\ users = {UserA}
  /\ subs = {}
  /\ pc = "idle"
  /\ req = NoReq
  /\ user = UserA
  /\ hasActiveSubscription = FALSE
  /\ hostTier = FALSE
  /\ q = NoQuery
  /\ host = NoHost
  /\ ret = NoRet
  /\ calls = <<>>
  /\ cancelled = FALSE
  /\ resp = NoResp
  /\ app = NoApp
  /\ \E r \in SubRows :
        /\ r.StartDate < r.EndDate
        /\ sub = [phase |-> "idle", row |-> r, now |-> 0, call |-> NoCall]

\* Time passes, at any point of a call or between calls.
SubTick ==
  /\ sub.phase # "off"
  /\ sub.now < MaxTime
  /\ sub' = [sub EXCEPT !.now = @ + 1]
  /\ UNCHANGED <<keyVars, app>>

\* The call UpdatePaymentStatus(ctx, subscriptionID, paymentStatus) is made.
StartUpdatePaymentStatus(subscriptionID, paymentStatus) ==
  /\ sub.phase = "idle"
  /\ sub' = [sub EXCEPT !.phase = "getByID",
                        !.call = [NoCall EXCEPT !.id = subscriptionID,
                                                !.paymentStatus = paymentStatus,
                                                !.before = sub.row,
                                                !.t0 = sub.now]]
  /\ UNCHANGED <<keyVars, app>>

\* subscriptionRepository.GetByID: First by primary key.
SubLookup(id) == IF id = sub.row.ID THEN NoError ELSE ErrRecordNotFound

\* else if paymentStatus == "failed" || paymentStatus == "refunded"
Deactivates(paymentStatus) == paymentStatus = "failed" \/ paymentStatus = "refunded"

\* subRepo.GetByID returns; on success the payment status is assigned to the
\* local and the condition is entered: for "paid" the start date is compared
\* next, for any other status the else-if decides.
SubGetByID ==
  /\ sub.phase = "getByID"
  /\ \E err \in {SubLookup(sub.call.id)} \cup DBErrors :
        IF err # NoError
        THEN sub' = [sub EXCEPT
                       !.phase = "returned",
                       !.call.err = Wrap("could not retrieve subscription to update payment status", err)]
        ELSE LET s == [sub.row EXCEPT !.PaymentStatus = sub.call.paymentStatus]
             IN  IF sub.call.paymentStatus = "paid"
                 THEN sub' = [sub EXCEPT !.phase = "checkStart", !.call.local = s]
                 ELSE sub' = [sub EXCEPT
                                !.phase = "update",
                                !.call.local = IF Deactivates(sub.call.paymentStatus)
                                               THEN [s EXCEPT !.IsActive = FALSE]
                                               ELSE s]
  /\ UNCHANGED <<keyVars, app>>

\* !sub.StartDate.After(now)
StartReached(s, now) == ~(s.StartDate > now)

\* An end date that still counts on the instant it is reached.
NotEnded_inclusive(s, now) == s.EndDate >= now

\* sub.EndDate.After(now)
NotEnded(s, now) == s.EndDate > now

\* The first time.Now() is read and the start date compared with it.
SubCheckStart ==
  /\ sub.phase = "checkStart"
  /\ sub' = [sub EXCEPT !.phase = IF StartReached(sub.call.local, sub.now)
                                  THEN "checkEnd" ELSE "update",
                        !.call.t1 = sub.now]
  /\ UNCHANGED <<keyVars, app>>

\* The second time.Now() is read and the end date compared with it.
SubCheckEnd ==
  /\ sub.phase = "checkEnd"
  /\ sub' = [sub EXCEPT !.phase = "update",
                        !.call.t2 = sub.now,
                        !.call.local.IsActive =
                           IF NotEnded(sub.call.local, sub.now) THEN TRUE ELSE @]
  /\ UNCHANGED <<keyVars, app>>

\* subRepo.Update: Save writes every field of the local, or fails.
SubUpdate ==
  /\ sub.phase = "update"
  /\ \/ sub' = [sub EXCEPT !.phase = "returned", !.row = sub.call.local,
                           !.call.isNil = FALSE]
     \/ \E e \in DBErrors :
          sub' = [sub EXCEPT
                    !.phase = "returned",
                    !.call.err = Wrap("could not save subscription payment status", e)]
  /\ UNCHANGED <<keyVars, app>>

\* The caller has the result.
SubReturn ==
  /\ sub.phase = "returned"
  /\ sub' = [sub EXCEPT !.phase = "idle", !.call = NoCall]
  /\ UNCHANGED <<keyVars, app>>

SubsNext ==
  \/ SubTick
  \/ \E id \in SubIDs, p \in PaymentStatuses : StartUpdatePaymentStatus(id, p)
  \/ SubGetByID
  \/ SubCheckStart
  \/ SubCheckEnd
  \/ SubUpdate
  \/ SubReturn

SubsSpec == SubsInit /\ [][SubsNext]_vars

(***************************************************************************)
(* Application.Start and Application.Shutdown.  app holds the main         *)
(* goroutine's position, the goroutine running apiServer.Run, the          *)
(* http.Server (its shutdown flag, its requests in flight), the two        *)
(* channels, the database handle, and, for the properties, how often       *)
(* Shutdown was entered, why, and how apiServer.Shutdown returned.         *)
(***************************************************************************)

\* Requests the server handles at the same time.
MaxInflight == 2

\* Application.Shutdown stops the API server and then closes the database.
ShutdownOrder_dbFirst == <<"closeDB", "stopServer">>

ShutdownOrder == <<"stopServer", "closeDB">>

AppInit ==
  /\ hosts = [h \in HostIds |-> HostCatalog(h)]
  /\ users = {UserA}
  /\ subs = {}
  /\ pc = "idle"
  /\ req = NoReq
  /\ user = UserA
  /\ hasActiveSubscription = FALSE
  /\ hostTier = FALSE
  /\ q = NoQuery
  /\ host = NoHost
  /\ ret = NoRet
  /\ calls = <<>>
  /\ cancelled = FALSE
  /\ resp = NoResp
  /\ sub = NoSub
  /\ app = [main |-> "start", i |-> 0, run |-> "none", runErr |-> "none",
            inShutdown |-> FALSE, inflight |-> 0,
            serverErrors |-> 0, quit |-> 0, notify |-> FALSE, signalled |-> FALSE,
            dbOpen |-> TRUE, shutdownCalls |-> 0, cause |-> "none", serverStopped |-> "no"]

\* The process is running.
Alive == app.main \notin {"off", "exited", "killed"}

\* Start: the channel serverErrors is made and the goroutine that runs
\* apiServer.Run is started.
AppStart ==
  /\ app.main = "start"
  /\ app' = [app EXCEPT !.main = "notify", !.run = "spawned"]
  /\ UNCHANGED <<keyVars, sub>>

\* Start: signal.Notify(quit, SIGINT, SIGTERM).
AppNotify ==
  /\ app.main = "notify"
  /\ app' = [app EXCEPT !.main = "select", !.notify = TRUE]
  /\ UNCHANGED <<keyVars, sub>>

\* The process gets SIGINT or SIGTERM: once Notify is in place the signal is
\* put into quit unless its buffer of one is full; before that it ends the
\* process.
AppSignal ==
  /\ Alive
  /\ app' = IF app.notify
            THEN [app EXCEPT !.quit = 1, !.signalled = TRUE]
            ELSE [app EXCEPT !.main = "killed"]
  /\ UNCHANGED <<keyVars, sub>>

\* What Run does with the error of ListenAndServe: it returns it, and the
\* goroutine sends it to serverErrors, whose buffer of one is free.
RunReturns(err) ==
  app' = [app EXCEPT !.run = "returned", !.runErr = err, !.serverErrors = 1]

\* Run: ListenAndServe returns http.ErrServerClosed when the server is shut
\* down already, the error of net.Listen when the address cannot be bound,
\* and otherwise has a listener.
RunListen ==
  /\ Alive
  /\ app.run = "spawned"
  /\ \/ app.inShutdown /\ RunReturns("ErrServerClosed")
     \/ ~app.inShutdown /\ RunReturns("listen")
     \/ ~app.inShutdown /\ app' = [app EXCEPT !.run = "bound"]
  /\ UNCHANGED <<keyVars, sub>>

\* Run: Serve registers the listener, unless the server is shut down by now,
\* and enters its accept loop.
RunServe ==
  /\ Alive
  /\ app.run = "bound"
  /\ IF app.inShutdown
     THEN RunReturns("ErrServerClosed")
     ELSE app' = [app EXCEPT !.run = "serving"]
  /\ UNCHANGED <<keyVars, sub>>

\* Run: the accept loop takes a connection and a handler starts on it.
RunAccept ==
  /\ Alive
  /\ app.run = "serving"
  /\ app.inflight < MaxInflight
  /\ app' = [app EXCEPT !.inflight = @ + 1]
  /\ UNCHANGED <<keyVars, sub>>

\* Run: Accept fails for good, or the listener was closed by Shutdown; Serve
\* returns and Run with it.
RunStops ==
  /\ Alive
  /\ \/ app.run = "serving" /\ RunReturns("accept")
     \/ app.run = "closing" /\ RunReturns("ErrServerClosed")
  /\ UNCHANGED <<keyVars, sub>>

\* A handler returns.
RequestDone ==
  /\ Alive
  /\ app.inflight > 0
  /\ app' = [app EXCEPT !.inflight = @ - 1]
  /\ UNCHANGED <<keyVars, sub>>

\* Start: the select takes a value from serverErrors or from quit, and
\* Shutdown is called.
AppSelect ==
  /\ app.main = "select"
  /\ \/ /\ app.serverErrors = 1
        /\ app' = [app EXCEPT !.serverErrors = 0, !.cause = "serverErrors",
                              !.main = "shutdown", !.i = 1, !.shutdownCalls = @ + 1]
     \/ /\ app.quit = 1
        /\ app' = [app EXCEPT !.quit = 0, !.cause = "quit",
                              !.main = "shutdown", !.i = 1, !.shutdownCalls = @ + 1]
  /\ UNCHANGED <<keyVars, sub>>

\* What Shutdown does next.
ShutdownStep ==
  IF app.main = "shutdown" /\ app.i \in 1..Len(ShutdownOrder)
  THEN ShutdownOrder[app.i] ELSE "none"

\* Shutdown: apiServer.Shutdown(shutdownCtx) is called; the server is marked
\* as shutting down and its registered listener closed.
AppStopServer ==
  /\ ShutdownStep = "stopServer"
  /\ app' = [app EXCEPT !.main = "waitIdle", !.inShutdown = TRUE,
                        !.run = IF @ = "serving" THEN "closing" ELSE @]
  /\ UNCHANGED <<keyVars, sub>>

\* Shutdown: apiServer.Shutdown returns, nil once no request is in flight,
\* the context's error when shutdownTimeout has passed before that; the
\* error is logged and Shutdown goes on.
AppServerStopped ==
  /\ app.main = "waitIdle"
  /\ \/ /\ app.inflight = 0
        /\ app' = [app EXCEPT !.main = "shutdown", !.i = @ + 1, !.serverStopped = "clean"]
     \/ /\ app.inflight > 0
        /\ app' = [app EXCEPT !.main = "shutdown", !.i = @ + 1, !.serverStopped = "timeout"]
  /\ UNCHANGED <<keyVars, sub>>

\* Shutdown: database.Shutdown() closes the connection pool.
AppCloseDB ==
  /\ ShutdownStep = "closeDB"
  /\ app' = [app EXCEPT !.i = @ + 1, !.dbOpen = FALSE]
  /\ UNCHANGED <<keyVars, sub>>

\* Shutdown returns, Start returns, main returns.
AppReturn ==
  /\ app.main = "shutdown"
  /\ app.i > Len(ShutdownOrder)
  /\ app' = [app EXCEPT !.main = "exited"]
  /\ UNCHANGED <<keyVars, sub>>

AppNext ==
  \/ AppStart
  \/ AppNotify
  \/ AppSignal
  \/ RunListen
  \/ RunServe
  \/ RunAccept
  \/ RunStops
  \/ RequestDone
  \/ AppSelect
  \/ AppStopServer
  \/ AppServerStopped
  \/ AppCloseDB
  \/ AppReturn

AppSpec == AppInit /\ [][AppNext]_vars

TypeOK ==
  /\ pc \in {"idle", "getUser", "checkSub", "countActive", "pickActive",
             "countOnline", "pickOnline", "done", "responded", "encode", "encoded"}
  /\ cancelled \in BOOLEAN
  /\ users \subseteq UserIDs
  /\ subs \subseteq users

(***************************************************************************)
(* Reading a produced URL back: net/url splitting and url.ParseQuery       *)
(***************************************************************************)

\* Index of the first occurrence of character c in s, or 0.
IndexOf(s, c) ==
  IF \E i \in 1..Len(s) : s[i] = c
  THEN CHOOSE i \in 1..Len(s) : s[i] = c /\ \A j \in 1..(i - 1) : s[j] # c
  ELSE 0

\* The text before the first c (all of s when c does not occur).
Before(s, c) == IF IndexOf(s, c) = 0 THEN s ELSE SubSeq(s, 1, IndexOf(s, c) - 1)

\* The text after the first c (empty when c does not occur).
After(s, c) == IF IndexOf(s, c) = 0 THEN <<>> ELSE SubSeq(s, IndexOf(s, c) + 1, Len(s))

HasChar(s, c) == IndexOf(s, c) # 0

\* url.Parse: the fragment starts at the first '#', the query at the first
\* '?' of what precedes it.
URLFragment(u) == After(u, "#")

URLRawQuery(u) == After(Before(u, "#"), "?")

URLBase(u) == Before(Before(u, "#"), "?")

\* url.QueryUnescape: '+' is a space, "%XX" the byte XX.
RECURSIVE QueryUnescape(_)
QueryUnescape(s) ==
  IF s = <<>> THEN <<>>
  ELSE IF Head(s) = "+" THEN <<" ">> \o QueryUnescape(Tail(s))
  ELSE IF Head(s) = "%" /\ Len(s) >= 3
       THEN <<Printable[(16 * HexVal(s[2]) + HexVal(s[3])) - 31]>>
            \o QueryUnescape(SubSeq(s, 4, Len(s)))
  ELSE <<Head(s)>> \o QueryUnescape(Tail(s))

\* The "k=v" pieces of a raw query, in order.
RECURSIVE QueryPieces(_)
QueryPieces(raw) ==
  IF raw = <<>> THEN <<>>
  ELSE <<Before(raw, "&")>> \o QueryPieces(After(raw, "&"))

\* url.ParseQuery, as the sequence of (key, value) pairs in order.
ParseQuery(raw) ==
  LET ps == QueryPieces(raw)
  IN  [i \in 1..Len(ps) |-> <<QueryUnescape(Before(ps[i], "=")),
                              QueryUnescape(After(ps[i], "="))>>]

\* The values a produced URL carries for a query key.
QueryValues(u, key) ==
  LET kv == ParseQuery(URLRawQuery(u))
  IN  {kv[i][2] : i \in {j \in 1..Len(kv) : kv[j][1] = key}}

(***************************************************************************)
(* Properties                                                              *)
(***************************************************************************)

\* The GetRandomActiveHost calls of the request, in order.
HostCalls == SelectSeq(calls, LAMBDA c : c.fn = "GetRandomActiveHost")

\* The request in flight is one of the two operations of the current service.
CurrentOp == req.op \in {"user", "free"}

\* A store error that is (or wraps) gorm.ErrRecordNotFound.
SaysNotFound(err) ==
  \E i \in 1..Len(err) : err[i] = [text |-> "record not found", arg |-> <<>>]

\* A store error that is a failure of the store itself.
IsInfraError(err) == err # NoError /\ ~SaysNotFound(err)

\* "reality" in any mix of upper and lower case.
RealityAnyCase(s) ==
  /\ Len(s) = 7
  /\ \A i \in 1..7 : s[i] \in {<<"r", "e", "a", "l", "i", "t", "y">>[i], <<"R", "E", "A", "L", "I", "T", "Y">>[i]}

\* The validation error of the encoder for host h.
ValidationError(h) ==
  <<[text |-> "selected host (ID: %d) is configured for Reality but missing public key (pbk)",
     arg |-> <<h.ID>>]>>

\* The NoHostAvailable error of the operation in flight.
NoHostAvailable ==
  <<[text |-> IF req.op = "user"
              THEN "no active hosts available to generate key for the specified criteria"
              ELSE "no active free hosts available to generate key",
     arg |-> <<>>]>>

\* The HostLookupFailed error of the operation in flight around a store error.
HostLookupFailed(err) ==
  <<[text |-> IF req.op = "user"
              THEN "could not retrieve an active host"
              ELSE "could not retrieve an active free host",
     arg |-> <<>>]>> \o err

\* No key came back: a nil result with an empty URL.
NoKey == ret.isNil /\ ret.VlessKey = <<>>

\* The client identifier inside a produced URL: what stands between
\* "vless://" and "@".
ClientIDOf(u) == Before(SubSeq(u, Len(S_vless) + 1, Len(u)), "@")

\* The "address:port" inside a produced URL.
HostPortOf(u) == After(URLBase(u), "@")

\* The number of query parameters of a produced URL with the given key.
QueryCount(u, key) ==
  LET kv == ParseQuery(URLRawQuery(u))
  IN  Cardinality({j \in 1..Len(kv) : kv[j][1] = key})

\* C1: a host whose security type is "reality" in any case and whose public
\* key is empty makes the encoder return its validation error and an empty
\* URL, and a user or free key request that selected such a host returns
\* exactly that error and no key.
C1_MissingPublicKeyFails ==
  /\ (pc = "encoded" /\ RealityAnyCase(host.SecurityType) /\ host.PublicKey = <<>>)
        => (ret.VlessKey = <<>> /\ ret.err = ValidationError(host))
  /\ (pc = "done" /\ CurrentOp /\ host # NoHost
        /\ RealityAnyCase(host.SecurityType) /\ host.PublicKey = <<>>)
        => (NoKey /\ ret.err = ValidationError(host))

W_C1 ==
  /\ pc = "done" /\ req.op = "free"
  /\ host.ID = 1 /\ host.SecurityType = <<"R", "e", "a", "l", "i", "t", "y">> /\ host.PublicKey = <<>>
  /\ ret.err = ValidationError(host)

\* The URL prefix "vless://<clientID>@<address>:<port>" for a host row.
KeyPrefixFor(clientID, h) ==
  <<"v", "l", "e", "s", "s", ":", "/", "/">> \o clientID \o <<"@">> \o h.Address \o <<":">> \o h.Port

\* The client identifier the operation in flight is to put into its keys.
ExpectedClientID ==
  IF req.op = "user" THEN UUIDString(req.userID)
  ELSE <<"5", "c", "c", "c", "4", "3", "c", "4", "-", "3", "c", "3", "e", "-", "4", "2", "2", "0", "-", "a", "8", "7", "8", "-", "7", "6", "1", "a", "a", "1", "1", "8", "2", "d", "d", "9">>

\* The host is one the encoder rejects.
Unencodable(h) == RealityAnyCase(h.SecurityType) /\ h.PublicKey = <<>>

C3_NoHostAvailable ==
  (/\ pc = "done" /\ CurrentOp
   /\ Len(HostCalls) >= 1
   /\ \A i \in 1..Len(HostCalls) : SaysNotFound(HostCalls[i].err))
    => /\ ret.err = NoHostAvailable
       /\ NoKey
       /\ Len(HostCalls) = IF ~req.country.isNil /\ req.country.val # <<>> THEN 2 ELSE 1

W_C3 ==
  /\ pc = "done" /\ req.op = "user"
  /\ req.country = [isNil |-> FALSE, val |-> C_DE]
  /\ \A i \in DOMAIN hosts : ~(hosts[i].IsOnline /\ hosts[i].IsFreeTier = hostTier)
  /\ Len(HostCalls) = 2
  /\ SaysNotFound(HostCalls[1].err) /\ SaysNotFound(HostCalls[2].err)
  /\ ret.err = NoHostAvailable

\* The subscription check of the request has returned an error.
SubscriptionCheckFailed ==
  /\ req.op = "user" /\ Len(calls) >= 2
  /\ calls[2].fn = "CheckUserActiveSubscription"
  /\ calls[2].returned /\ calls[2].err # NoError

\* The subscription store answered true, without error.
SubscriptionSaidYes ==
  /\ Len(calls) >= 2
  /\ calls[2].fn = "CheckUserActiveSubscription"
  /\ calls[2].returned /\ calls[2].err = NoError /\ calls[2].has

\* C4: when the subscription check of an existing user returns an error,
\* whatever bool comes with it, the request goes on to query free hosts only,
\* fails only if the host lookup or the encoding fails, and on success returns
\* a key with hasActiveSubscription = false.
C4_SubscriptionCheckFailsOpen ==
  SubscriptionCheckFailed
    => /\ Len(HostCalls) >= 1
       /\ \A i \in 1..Len(HostCalls) : HostCalls[i].isFreeTier = [isNil |-> FALSE, val |-> TRUE]
       /\ pc = "done"
            => LET last == HostCalls[Len(HostCalls)]
               IN  /\ (last.hostID # 0 /\ ~Unencodable(hosts[last.hostID]))
                        => (ret.err = NoError /\ ~ret.isNil /\ ret.VlessKey # <<>>)
                   /\ ret.err = NoError => ret.HasActiveSubscription = FALSE
                   /\ ret.err # NoError
                        => \/ last.err # NoError
                           \/ (last.hostID # 0 /\ Unencodable(hosts[last.hostID]))

W_C4 ==
  /\ pc = "done" /\ SubscriptionCheckFailed /\ calls[2].has
  /\ req.userID \in subs
  /\ ret.err = NoError /\ ret.VlessKey # <<>> /\ ~ret.HasActiveSubscription
  /\ host.IsFreeTier

\* C5: every host query of GenerateVlessKeyForUser asks for paid hosts when
\* the subscription store answered true without error and for free hosts
\* otherwise, and on success the returned hasActiveSubscription is true
\* exactly when paid hosts were queried.
C5_TierDecision ==
  req.op = "user"
    => /\ \A i \in 1..Len(HostCalls) :
            HostCalls[i].isFreeTier = [isNil |-> FALSE, val |-> ~SubscriptionSaidYes]
       /\ (pc = "done" /\ ret.err = NoError)
            => /\ ret.HasActiveSubscription = SubscriptionSaidYes
               /\ ret.HasActiveSubscription = (HostCalls[1].isFreeTier.val = FALSE)

W_C5 ==
  /\ pc = "done" /\ req.op = "user"
  /\ SubscriptionSaidYes
  /\ Len(HostCalls) = 2
  /\ ret.err = NoError /\ ret.HasActiveSubscription
  /\ ~host.IsFreeTier

\* C6: the first collaborator call of GenerateVlessKeyForUser is the user
\* lookup, every other call comes after it has returned a user, and when it
\* reports that no user has the ID the request returns the UserNotFound
\* error and no key without any subscription or host query.
C6_UserResolvedFirst ==
  (req.op = "user" /\ Len(calls) >= 1)
    => /\ calls[1].fn = "GetByID" /\ calls[1].id = req.userID
       /\ Len(calls) >= 2 => (calls[1].returned /\ calls[1].err = NoError)
       /\ (calls[1].returned /\ SaysNotFound(calls[1].err))
            => /\ pc = "done"
               /\ Len(calls) = 1
               /\ NoKey
               /\ ret.err = <<[text |-> "user with ID %s not found", arg |-> req.userID]>>

W_C6 ==
  /\ pc = "done" /\ req.op = "user" /\ req.userID \notin users
  /\ Len(calls) = 1 /\ SaysNotFound(calls[1].err)
  /\ ret.err = <<[text |-> "user with ID %s not found", arg |-> req.userID]>>

\* C7: every collaborator call of GenerateFreeVlessKey is a host query with
\* the free-tier flag set; it calls neither the user store nor the
\* subscription store, whatever its remarks and country are.
C7_FreeKeyQueriesFreeHosts ==
  req.op = "free"
    => /\ Len(calls) >= 1
       /\ \A i \in 1..Len(calls) :
            /\ calls[i].fn = "GetRandomActiveHost"
            /\ calls[i].isFreeTier = [isNil |-> FALSE, val |-> TRUE]
       /\ (pc = "done" /\ ret.err = NoError) => host.IsFreeTier

W_C7 ==
  /\ pc = "done" /\ req.op = "free"
  /\ req.country = [isNil |-> FALSE, val |-> C_US] /\ req.remarks # <<>>
  /\ Len(calls) = 2
  /\ ret.err = NoError /\ host.IsFreeTier

\* C8: every key an unauthenticated free-key generation returns carries the
\* free-tier placeholder UUID 5ccc43c4-3c3e-4220-a878-761aa1182dd9 as its
\* client identifier, whatever the host, country and remarks.
C8_FreeKeysCarryTheConstant ==
  (pc = "done" /\ req.op \in {"free", "freeV1"} /\ ret.err = NoError)
    => ClientIDOf(ret.VlessKey) = <<"5", "c", "c", "c", "4", "3", "c", "4", "-", "3", "c", "3", "e", "-", "4", "2", "2", "0", "-", "a", "8", "7", "8", "-", "7", "6", "1", "a", "a", "1", "1", "8", "2", "d", "d", "9">>

\* C9: a failure of the host store that is not NotFound is returned as the
\* HostLookupFailed error around the store's error, never as NoHostAvailable
\* and never dropped: after the first host query no retry is issued, and a
\* failing retry after a NotFound ends the request the same way.
C9_StoreFailureIsNotNotFound ==
  (CurrentOp /\ Len(HostCalls) >= 1)
    => /\ (HostCalls[1].returned /\ IsInfraError(HostCalls[1].err))
            => /\ pc = "done"
               /\ Len(HostCalls) = 1
               /\ NoKey
               /\ ret.err = HostLookupFailed(HostCalls[1].err)
               /\ ret.err # NoHostAvailable
       /\ (Len(HostCalls) = 2 /\ HostCalls[2].returned /\ IsInfraError(HostCalls[2].err))
            => /\ pc = "done"
               /\ SaysNotFound(HostCalls[1].err)
               /\ NoKey
               /\ ret.err = HostLookupFailed(HostCalls[2].err)
               /\ ret.err # NoHostAvailable

W_C9 ==
  /\ pc = "done" /\ req.op = "user"
  /\ Len(HostCalls) = 2
  /\ SaysNotFound(HostCalls[1].err)
  /\ IsInfraError(HostCalls[2].err)
  /\ ret.err = HostLookupFailed(HostCalls[2].err)

\* C10: a URL the encoder produces for a host whose security type is "none"
\* or empty has no security parameter; for any other security type it has
\* exactly one, whose value is the host's security type.
C10_SecurityParameter ==
  (/\ pc \in {"encoded", "done"}
   /\ ret.err = NoError /\ ret.VlessKey # <<>>)
    => IF host.SecurityType = <<>> \/ host.SecurityType = <<"n", "o", "n", "e">>
       THEN QueryCount(ret.VlessKey, <<"s", "e", "c", "u", "r", "i", "t", "y">>) = 0
       ELSE /\ QueryCount(ret.VlessKey, <<"s", "e", "c", "u", "r", "i", "t", "y">>) = 1
            /\ QueryValues(ret.VlessKey, <<"s", "e", "c", "u", "r", "i", "t", "y">>) = {host.SecurityType}

W_C10 ==
  /\ pc = "encoded" /\ ret.err = NoError
  /\ host.SecurityType = <<"N", "o", "n", "e">>
  /\ QueryValues(ret.VlessKey, <<"s", "e", "c", "u", "r", "i", "t", "y">>) = {<<"N", "o", "n", "e">>}

\* A URL has been produced: by the encoder called on its own, or for the host
\* selected by a request.
Produced ==
  /\ pc \in {"encoded", "done"}
  /\ ret.err = NoError
  /\ ret.VlessKey # <<>>

\* The (key, value) pairs standard query parsing reads from the produced URL.
ProducedQuery == ParseQuery(URLRawQuery(ret.VlessKey))

\* C11: every produced URL has exactly one type parameter, the host's network
\* type when that is non-empty and "tcp" when it is empty, so its query string
\* is never empty.
C11_TypeAlwaysPresent ==
  Produced
    => /\ QueryCount(ret.VlessKey, <<"t", "y", "p", "e">>) = 1
       /\ QueryValues(ret.VlessKey, <<"t", "y", "p", "e">>) =
            {IF host.Network = <<>> THEN <<"t", "c", "p">> ELSE host.Network}
       /\ URLRawQuery(ret.VlessKey) # <<>>

W_C11 ==
  /\ pc = "encoded" /\ Produced
  /\ host.Network = <<>>
  /\ QueryValues(ret.VlessKey, <<"t", "y", "p", "e">>) = {<<"t", "c", "p">>}

\* C12: a produced URL has a pbk parameter exactly when the host's security
\* type is "reality" in any letter case; its value is then the host's public
\* key, which is non-empty.  A public key of a non-reality host is not emitted.
C12_PublicKeyOnlyForReality ==
  Produced
    => IF RealityAnyCase(host.SecurityType)
       THEN /\ QueryCount(ret.VlessKey, <<"p", "b", "k">>) = 1
            /\ QueryValues(ret.VlessKey, <<"p", "b", "k">>) = {host.PublicKey}
            /\ host.PublicKey # <<>>
       ELSE QueryCount(ret.VlessKey, <<"p", "b", "k">>) = 0

W_C12 ==
  /\ pc = "encoded" /\ Produced
  /\ host.SecurityType = <<"R", "e", "a", "l", "i", "t", "y">>
  /\ QueryValues(ret.VlessKey, <<"p", "b", "k">>) = {<<"P", "B", "K", "1", "2", "3">>}

\* C13: a produced URL has a sid parameter exactly when the host's security
\* type is "reality" in any letter case and its short ID is non-empty; the
\* value is the short ID.  A short ID of a non-reality host is not emitted.
C13_ShortIdOnlyForReality ==
  Produced
    => IF RealityAnyCase(host.SecurityType) /\ host.RSID # <<>>
       THEN /\ QueryCount(ret.VlessKey, <<"s", "i", "d">>) = 1
            /\ QueryValues(ret.VlessKey, <<"s", "i", "d">>) = {host.RSID}
       ELSE QueryCount(ret.VlessKey, <<"s", "i", "d">>) = 0

W_C13 ==
  /\ pc = "encoded" /\ Produced
  /\ host.SecurityType = <<"t", "l", "s">>
  /\ host.RSID = <<"S", "I", "D", "1">>
  /\ QueryCount(ret.VlessKey, <<"s", "i", "d">>) = 0

\* C14: no parameter of a produced URL has an empty value; sni, fp and flow
\* are each present exactly when the host's SNI, fingerprint and flow are
\* non-empty.
C14_NoEmptyParameter ==
  Produced
    => /\ LET kv == ProducedQuery IN \A i \in 1..Len(kv) : kv[i][2] # <<>>
       /\ QueryCount(ret.VlessKey, <<"s", "n", "i">>) = (IF host.SNI # <<>> THEN 1 ELSE 0)
       /\ QueryCount(ret.VlessKey, <<"f", "p">>) = (IF host.Fingerprint # <<>> THEN 1 ELSE 0)
       /\ QueryCount(ret.VlessKey, <<"f", "l", "o", "w">>) = (IF host.Flow # <<>> THEN 1 ELSE 0)

W_C14 ==
  /\ pc = "encoded" /\ Produced
  /\ host.SNI = <<>> /\ host.Fingerprint = <<>> /\ host.Flow # <<>>
  /\ QueryCount(ret.VlessKey, <<"s", "n", "i">>) = 0
  /\ QueryCount(ret.VlessKey, <<"f", "l", "o", "w">>) = 1

\* The host field a query key is derived from.
FieldFor(h, key) ==
  CASE key = <<"s", "e", "c", "u", "r", "i", "t", "y">> -> h.SecurityType
    [] key = <<"s", "n", "i">> -> h.SNI
    [] key = <<"f", "p">> -> h.Fingerprint
    [] key = <<"p", "b", "k">> -> h.PublicKey
    [] key = <<"s", "i", "d">> -> h.RSID
    [] key = <<"f", "l", "o", "w">> -> h.Flow
    [] key = <<"t", "y", "p", "e">> -> (IF h.Network = <<>> THEN <<"t", "c", "p">> ELSE h.Network)
    [] OTHER -> <<"?">>

QueryKeys ==
  {<<"s", "e", "c", "u", "r", "i", "t", "y">>, <<"s", "n", "i">>, <<"f", "p">>, <<"p", "b", "k">>, <<"s", "i", "d">>, <<"f", "l", "o", "w">>, <<"t", "y", "p", "e">>}

\* C16: standard query parsing of a produced URL yields only the keys
\* security, sni, fp, pbk, sid, flow and type, each at most once, and for each
\* the exact value of the host field it was derived from ("tcp" for an empty
\* network type).
C16_QueryRoundTrip ==
  Produced
    => LET kv == ProducedQuery
       IN  /\ \A i \in 1..Len(kv) :
                /\ kv[i][1] \in QueryKeys
                /\ kv[i][2] = FieldFor(host, kv[i][1])
           /\ Cardinality({kv[i][1] : i \in 1..Len(kv)}) = Len(kv)

W_C16 ==
  /\ pc = "encoded" /\ Produced
  /\ host.SNI = <<"a", " ", "b", "&", "c", "=", "d", ".", "e", "x", "a", "m", "p", "l", "e">>
  /\ host.SecurityType = <<"t", "l", "s">>
  /\ host.Network = <<>> /\ host.Fingerprint = <<>> /\ host.Flow = <<>>
  /\ URLRawQuery(ret.VlessKey) = <<"s", "e", "c", "u", "r", "i", "t", "y", "=", "t", "l", "s", "&", "s", "n", "i", "=", "a", "+", "b", "%", "2", "6", "c", "%", "3", "D", "d", ".", "e", "x", "a", "m", "p", "l", "e", "&", "t", "y", "p", "e", "=", "t", "c", "p">>
  /\ QueryValues(ret.VlessKey, <<"s", "n", "i">>) = {host.SNI}

\* The client identifier handed to the encoder in the state at hand.
EncodedClientID ==
  IF req.op = "encode" THEN UUIDString(req.userID) ELSE ExpectedClientID

\* C17: a host with security "none" or empty and empty SNI, fingerprint, flow
\* and network, encoded with empty remarks, yields exactly
\* vless://<clientID>@<address>:<port>?type=tcp.
C17_BareHost ==
  (/\ Produced /\ req.op # "freeV1"
   /\ host.SecurityType \in {<<>>, <<"n", "o", "n", "e">>}
   /\ host.SNI = <<>> /\ host.Fingerprint = <<>> /\ host.Flow = <<>> /\ host.Network = <<>>
   /\ req.remarks = <<>>)
    => ret.VlessKey = KeyPrefixFor(EncodedClientID, host) \o <<"?", "t", "y", "p", "e", "=", "t", "c", "p">>

W_C17 ==
  /\ pc = "encoded" /\ Produced
  /\ host.SecurityType = <<"n", "o", "n", "e">>
  /\ ret.VlessKey = <<"v", "l", "e", "s", "s", ":", "/", "/", "0", "0", "0", "0", "0", "0", "0", "0", "-", "0", "0", "0", "0", "-", "0", "0", "0", "0", "-", "0", "0", "0", "0", "-", "0", "0", "0", "0", "0", "0", "0", "0", "0", "0", "0", "1", "@", "1", ".", "2", ".", "3", ".", "4", ":", "4", "4", "3", "?", "t", "y", "p", "e", "=", "t", "c", "p">>

\* What follows the client identifier in a produced URL, from "@" on.
AfterClientID(u) == <<"@">> \o After(u, "@")

\* The call of scenario B: address 1.2.3.4, port 443, security "reality",
\* public key PBK123, short ID SID1, nothing else set, remarks "Test".
ScenarioB ==
  /\ pc = "encoded"
  /\ host.Address = <<"1", ".", "2", ".", "3", ".", "4">> /\ host.Port = <<"4", "4", "3">>
  /\ host.SecurityType = <<"r", "e", "a", "l", "i", "t", "y">>
  /\ host.PublicKey = <<"P", "B", "K", "1", "2", "3">> /\ host.RSID = <<"S", "I", "D", "1">>
  /\ host.SNI = <<>> /\ host.Fingerprint = <<>> /\ host.Flow = <<>> /\ host.Network = <<>>
  /\ req.remarks = <<"T", "e", "s", "t">>

\* C18 as stated: scenario B yields @1.2.3.4:443?pbk=PBK123&sid=SID1&type=tcp#Test,
\* a query of exactly the three parameters pbk, sid and type.
C18_ScenarioB_ThreeParameters ==
  ScenarioB
    => /\ ret.err = NoError
       /\ AfterClientID(ret.VlessKey) = <<"@", "1", ".", "2", ".", "3", ".", "4", ":", "4", "4", "3", "?", "p", "b", "k", "=", "P", "B", "K", "1", "2", "3", "&", "s", "i", "d", "=", "S", "I", "D", "1", "&", "t", "y", "p", "e", "=", "t", "c", "p", "#", "T", "e", "s", "t">>
       /\ Len(ProducedQuery) = 3

\* C18: scenario B yields
\* @1.2.3.4:443?pbk=PBK123&security=reality&sid=SID1&type=tcp#Test, a query of
\* exactly the four parameters pbk, security, sid and type, in that order.
C18_ScenarioB ==
  ScenarioB
    => /\ ret.err = NoError
       /\ AfterClientID(ret.VlessKey) = <<"@", "1", ".", "2", ".", "3", ".", "4", ":", "4", "4", "3", "?", "p", "b", "k", "=", "P", "B", "K", "1", "2", "3", "&", "s", "e", "c", "u", "r", "i", "t", "y", "=", "r", "e", "a", "l", "i", "t", "y", "&", "s", "i", "d", "=", "S", "I", "D", "1", "&", "t", "y", "p", "e", "=", "t", "c", "p", "#", "T", "e", "s", "t">>
       /\ Len(ProducedQuery) = 4
       /\ {ProducedQuery[i][1] : i \in 1..4} = {<<"p", "b", "k">>, <<"s", "e", "c", "u", "r", "i", "t", "y">>, <<"s", "i", "d">>, <<"t", "y", "p", "e">>}

W_C18 ==
  /\ ScenarioB
  /\ QueryValues(ret.VlessKey, <<"s", "e", "c", "u", "r", "i", "t", "y">>) = {<<"r", "e", "a", "l", "i", "t", "y">>}
  /\ URLFragment(ret.VlessKey) = <<"T", "e", "s", "t">>

\* url.PathUnescape: "%XX" is the byte XX, every other byte itself.
RECURSIVE PathUnescape(_)
PathUnescape(s) ==
  IF s = <<>> THEN <<>>
  ELSE IF Head(s) = "%" /\ Len(s) >= 3
       THEN <<Printable[(16 * HexVal(s[2]) + HexVal(s[3])) - 31]>>
            \o PathUnescape(SubSeq(s, 4, Len(s)))
  ELSE <<Head(s)>> \o PathUnescape(Tail(s))

\* C19: a produced URL has a "#" exactly when the remarks are non-empty; what
\* follows the "#" is the remarks path-escaped: it unescapes to the remarks
\* and holds neither a space nor a second "#", so a space of the remarks
\* stands as %20 and not as "+".
C19_FragmentRule ==
  Produced
    => /\ HasChar(ret.VlessKey, "#") <=> (req.remarks # <<>>)
       /\ req.remarks # <<>>
            => /\ PathUnescape(URLFragment(ret.VlessKey)) = req.remarks
               /\ ~HasChar(URLFragment(ret.VlessKey), " ")
               /\ ~HasChar(URLFragment(ret.VlessKey), "#")
               /\ URLFragment(ret.VlessKey) # <<>>

W_C19 ==
  /\ pc = "encoded" /\ Produced
  /\ req.remarks = <<"M", "y", " ", "K", "e", "y", "/", "1", "+", "2">>
  /\ URLFragment(ret.VlessKey) = <<"M", "y", "%", "2", "0", "K", "e", "y", "%", "2", "F", "1", "+", "2">>

\* The error of a pick that found no row although the count before it did:
\* gorm.ErrRecordNotFound inside the wrapping of the pick.
RacedPick(err) ==
  /\ Len(err) = 2
  /\ err[1].text \in {"failed to get random host with 'active' status",
                      "failed to get random online host (fallback query)"}
  /\ err[2] = [text |-> "record not found", arg |-> <<>>]

\* C20: when a host query of a request counted eligible hosts and its pick
\* then found none, the request takes the NotFound path: after the first
\* query with a non-empty country the retry without country is issued,
\* otherwise the request ends with NoHostAvailable and no key; it never ends
\* with the HostLookupFailed error.
C20_RaceTakesNotFoundPath ==
  (CurrentOp /\ Len(HostCalls) >= 1)
    => /\ (HostCalls[1].returned /\ RacedPick(HostCalls[1].err))
            => IF ~req.country.isNil /\ req.country.val # <<>>
               THEN /\ Len(HostCalls) = 2
                    /\ HostCalls[2].country.isNil
                    /\ HostCalls[2].isFreeTier = HostCalls[1].isFreeTier
               ELSE /\ pc = "done" /\ NoKey
                    /\ Len(HostCalls) = 1
                    /\ ret.err = NoHostAvailable
       /\ (Len(HostCalls) = 2 /\ HostCalls[2].returned /\ RacedPick(HostCalls[2].err))
            => /\ pc = "done" /\ NoKey
               /\ ret.err = NoHostAvailable

W_C20 ==
  /\ pc = "done" /\ req.op = "user"
  /\ Len(HostCalls) = 2
  /\ RacedPick(HostCalls[1].err)
  /\ RacedPick(HostCalls[2].err)
  /\ ret.err = NoHostAvailable

(***************************************************************************)
(* Cancellation                                                            *)
(***************************************************************************)

\* A collaborator call of the request returned the error of the cancelled
\* context.
CancelObserved ==
  \E i \in 1..Len(calls) : calls[i].returned /\ ErrorsIs(calls[i].err, ContextCanceled)

\* The request is waiting on a collaborator call.
InFlight ==
  pc \in {"getUser", "checkSub", "countActive", "pickActive", "countOnline", "pickOnline"}

\* The request has ended without a key and its error is, or wraps, the
\* context's.
Aborted == pc = "done" /\ NoKey /\ ErrorsIs(ret.err, ContextCanceled)

\* C21: once the context of a user or free key request is cancelled while
\* the request waits on a collaborator call, the request ends, with no key
\* and with an error that wraps the context's error; and a request that ended
\* after any of its collaborator calls returned the context's error (the
\* subscription check included, whose error the service otherwise ignores)
\* has returned no key but that error.
C21_Cancellation ==
  /\ [](pc = "done" /\ CancelObserved => Aborted)
  /\ ((cancelled /\ InFlight) ~> Aborted)

W_C21 ==
  /\ pc = "done" /\ req.op = "user" /\ cancelled
  /\ Len(calls) = 3
  /\ ErrorsIs(calls[2].err, ContextCanceled)
  /\ ret.err = HostLookupFailed(calls[3].err)

(***************************************************************************)
(* Frame of a key request                                                  *)
(***************************************************************************)

\* What belongs to the request in flight.
requestVars ==
  <<pc, req, user, hasActiveSubscription, hostTier, q, host, ret, calls, cancelled>>

\* No request is in flight and nothing of an earlier one is left.
Fresh ==
  /\ req = NoReq /\ user = UserA /\ ~hasActiveSubscription /\ ~hostTier
  /\ q = NoQuery /\ host = NoHost /\ ret = NoRet /\ calls = <<>> /\ ~cancelled

StepTexts(fn) ==
  IF fn = "GetByID"
  THEN {"user with ID %s not found", "could not retrieve user"}
  ELSE {NoHostsText, HostLookupText}

\* C23: when a user or free key request ends because its user lookup or its
\* host lookup failed, the error it returns is not the error the store
\* returned: it is a new error whose message names the failed step (and, for
\* an unknown user, the user ID), around the store's error or in place of it.
C23_ErrorsCarryContext ==
  (pc = "done" /\ CurrentOp /\ calls[Len(calls)].err # NoError)
    => LET last == calls[Len(calls)]
       IN  /\ last.fn \in {"GetByID", "GetRandomActiveHost"}
           /\ ret.err # NoError
           /\ ret.err # last.err
           /\ ret.err[1].text \in StepTexts(last.fn)
           /\ ret.err[1].text = "user with ID %s not found" => ret.err[1].arg = req.userID
           /\ Len(ret.err) > 1 => Tail(ret.err) = last.err

W_C23 ==
  /\ pc = "done" /\ req.op = "user"
  /\ Len(calls) = 1
  /\ calls[1].err \in DBErrors
  /\ ret.err = Wrap("could not retrieve user", calls[1].err)

(***************************************************************************)
(* The key endpoints                                                       *)
(***************************************************************************)

\* The collaborator call the request ended on.
LastCall == calls[Len(calls)]

\* The request ended on a failure of the user or host store itself.
StoreFault ==
  /\ calls # <<>>
  /\ LastCall.fn \in {"GetByID", "GetRandomActiveHost"}
  /\ IsInfraError(LastCall.err)

\* The innermost error of a chain: the one the database driver produced.
DriverError(err) == <<err[Len(err)]>>

\* C24: a key endpoint whose service call ended on a failure of the user or
\* host store answers 500 with the fixed message "Failed to generate VLESS
\* key.", and its body does not contain the text of the store's error.
C24_StoreFaultsAnswered500 ==
  (pc = "responded" /\ StoreFault)
    => /\ resp.status = StatusInternalServerError
       /\ resp.body = MsgFailed
       /\ ~Contains(resp.body, ErrorString(DriverError(LastCall.err)))

\* The UserNotFound error of the request in flight.
UserNotFound == <<[text |-> "user with ID %s not found", arg |-> req.userID]>>

\* C25: the user endpoint answers the service's UserNotFound error with 404;
\* both endpoints answer their NoHostAvailable error with 503; both answer
\* the encoder's validation error for a reality host without public key with
\* 500 and the fixed message.
C25_ErrorKindsToStatus ==
  pc = "responded"
    => /\ (req.op = "user" /\ ret.err = UserNotFound) => resp.status = StatusNotFound
       /\ ret.err = NoHostAvailable => resp.status = StatusServiceUnavailable
       /\ (host # NoHost /\ ret.err = ValidationError(host))
            => resp.status = StatusInternalServerError /\ resp.body = MsgFailed

W_C25 ==
  /\ pc = "responded" /\ req.op = "user"
  /\ ret.err = NoHostAvailable
  /\ Len(HostCalls) = 2
  /\ resp.status = StatusServiceUnavailable

(***************************************************************************)
(* The pipeline of a request                                               *)
(***************************************************************************)

\* The collaborator calls a request may make, in their order.
Pipeline ==
  IF req.op = "user"
  THEN <<"GetByID", "CheckUserActiveSubscription", "GetRandomActiveHost", "GetRandomActiveHost">>
  ELSE <<"GetRandomActiveHost", "GetRandomActiveHost">>

\* C26: the collaborator calls of a user key request are, in this order, at
\* most one GetByID, one CheckUserActiveSubscription and two
\* GetRandomActiveHost, those of a free key request at most two
\* GetRandomActiveHost; each call is made after the one before it returned; a
\* second host query exists only after a first one that reported NotFound for
\* a request whose country is neither nil nor empty, and it asks for no
\* country; and every request in flight ends, with a key or with an error.
C26_BoundedPipeline ==
  /\ [](CurrentOp =>
          /\ Len(calls) <= Len(Pipeline)
          /\ \A i \in 1..Len(calls) :
                /\ calls[i].fn = Pipeline[i]
                /\ i < Len(calls) => calls[i].returned
          /\ Len(HostCalls) = 2 =>
                /\ SaysNotFound(HostCalls[1].err)
                /\ ~req.country.isNil /\ req.country.val # <<>>
                /\ HostCalls[2].country.isNil
          /\ pc = "done" => /\ LastCall.returned
                            /\ (ret.err = NoError) # NoKey)
  /\ (InFlight ~> pc = "done")

W_C26 ==
  /\ pc = "done" /\ req.op = "free"
  /\ req.country = StringPtr(<<>>)
  /\ Len(calls) = 1
  /\ SaysNotFound(calls[1].err)
  /\ ret.err = NoHostAvailable

(***************************************************************************)
(* Order of the query parameters                                           *)
(***************************************************************************)

\* The parameter keys in ascending alphabetical order.
KeyOrder == <<K_flow, K_fp, K_pbk, K_security, K_sid, K_sni, K_type>>

\* The place of a key in that order, 0 for any other key.
KeyRank(k) ==
  IF \E i \in 1..Len(KeyOrder) : KeyOrder[i] = k
  THEN CHOOSE i \in 1..Len(KeyOrder) : KeyOrder[i] = k
  ELSE 0

\* C27: the query parameters of every produced URL stand in the order flow,
\* fp, pbk, security, sid, sni, type, whichever of them are present, and no
\* key stands twice, although the encoder sets them in the order security,
\* sni, fp, pbk, sid, flow, type.
C27_CanonicalParameterOrder ==
  Produced
    => LET kv == ProducedQuery
       IN  /\ \A i \in 1..Len(kv) : KeyRank(kv[i][1]) > 0
           /\ \A i \in 1..Len(kv), j \in 1..Len(kv) :
                 i < j => KeyRank(kv[i][1]) < KeyRank(kv[j][1])

W_C27 ==
  /\ Produced /\ pc = "encoded"
  /\ Len(ProducedQuery) = 7
  /\ ProducedQuery[1][1] = K_flow
  /\ ProducedQuery[4][1] = K_security
  /\ ProducedQuery[7][1] = K_type

(***************************************************************************)
(* The host store's selection                                              *)
(***************************************************************************)

\* A GetRandomActiveHost call is running.
InStore == pc \in {"countActive", "pickActive", "countOnline", "pickOnline"}

\* Host h is online now and is one the running call asks for.
OnlineNow(h) ==
  hosts[h].IsOnline /\ MatchesFilter(hosts[h], q.country, q.isFreeTier)

\* Host h is online with status 'active' now and is one the call asks for.
ActiveNow(h) == OnlineNow(h) /\ hosts[h].Status = StatusActive

C29_PaymentUpdate ==
  sub.phase = "returned"
    => LET c == sub.call
           was == c.before
       IN  /\ (c.err # NoError /\ c.err[1].text = "could not retrieve subscription to update payment status")
                => sub.row = was
           /\ c.isNil = (c.err # NoError)
           /\ c.err = NoError =>
                /\ sub.row.PaymentStatus = c.paymentStatus
                /\ sub.row.StartDate = was.StartDate /\ sub.row.EndDate = was.EndDate
                /\ Deactivates(c.paymentStatus) => ~sub.row.IsActive
                /\ (c.paymentStatus = "paid" /\ was.StartDate <= c.t0 /\ sub.now < was.EndDate)
                     => sub.row.IsActive
                /\ (c.paymentStatus = "paid" /\ (sub.now < was.StartDate \/ was.EndDate <= c.t0))
                     => sub.row.IsActive = was.IsActive
                /\ (c.paymentStatus # "paid" /\ ~Deactivates(c.paymentStatus))
                     => sub.row.IsActive = was.IsActive
                /\ c.paymentStatus = "paid" =>
                     /\ c.t0 <= c.t1 /\ c.t1 <= sub.now
                     /\ c.t2 # NoTime => (c.t1 <= c.t2 /\ c.t2 <= sub.now)
                     /\ sub.row.IsActive =
                          IF was.StartDate <= c.t1 /\ c.t2 # NoTime /\ c.t2 < was.EndDate
                          THEN TRUE ELSE was.IsActive

W_C29 ==
  /\ sub.phase = "returned"
  /\ sub.call.err = NoError
  /\ sub.call.paymentStatus = "paid"
  /\ ~sub.call.before.IsActive
  /\ sub.row.IsActive
  /\ sub.call.t0 >= sub.row.StartDate /\ sub.now = sub.row.EndDate - 1

(***************************************************************************)
(* Shutdown of the application                                             *)
(***************************************************************************)

\* The server takes new requests.
Accepting == app.run = "serving"

\* C30: Start enters Shutdown at most once, and exactly once before it
\* returns; when Shutdown is entered, either Run has returned and its error
\* was taken from serverErrors, or a SIGINT/SIGTERM was received and taken
\* from quit; and when the database is closed, apiServer.Shutdown has
\* returned before (because no request was in flight any more or because the
\* timeout passed) and the server takes no new requests.
C30_ShutdownOrdering ==
  app.main # "off"
    => /\ app.shutdownCalls <= 1
       /\ (app.shutdownCalls = 1) = (app.main \in {"shutdown", "waitIdle", "exited"})
       /\ app.cause = "serverErrors" => app.run = "returned"
       /\ app.cause = "quit" => app.signalled
       /\ (app.shutdownCalls = 1) = (app.cause # "none")
       /\ ~app.dbOpen => /\ app.serverStopped \in {"clean", "timeout"}
                         /\ app.shutdownCalls = 1
                         /\ ~Accepting

W_C30 ==
  /\ app.main = "exited"
  /\ ~app.dbOpen
  /\ app.cause = "quit"
  /\ app.serverStopped = "timeout"
  /\ app.inflight > 0
  /\ app.run = "returned" /\ app.runErr = "ErrServerClosed"

====
